---- MODULE Spec2Model ----
(***************************************************************************)
(* Celeste: the sync loop of celeste/src/launch.rs (fn launch, 'main loop,  *)
(* sync_local_directory, sync_remote_directory, process_deletion_requests) *)
(* as a state machine.                                                     *)
(*                                                                         *)
(* Strings are sequences of tokens: a path segment, or the separator "/".  *)
(* A file tree is a function from relative paths (sequences of segments)   *)
(* to nodes [k, ts, c]: kind, modification time (seconds), content id.     *)
(***************************************************************************)
EXTENDS Integers, Sequences, FiniteSets, TLC

VARIABLES
  remotes_tbl,      \* rows of table Remotes (names)
  dirs_tbl,         \* rows of table SyncDirs
  items_tbl,        \* rows of table SyncItems, in rowid order
  configs,          \* rclone configs (remote names)
  directory_map,    \* DirectoryMap: remote name -> set of (local, remote) pairs
  stack_ui,         \* children of the Stack widget (remote names)
  error_items,      \* per SyncDir id: SyncDir.error_items
  error_count,      \* per SyncDir id: the number in SyncDir.error_status_text
  remote_deletion_queue,
  sync_dir_deletion_queue,
  borrowed,         \* RefCells mutably borrowed by the worker
  lfs,              \* local tree of each SyncDir
  rfs,              \* remote tree of each SyncDir
  ignore_file,      \* per SyncDir id: patterns of .sync-exclude.lst
  clock,            \* wall clock, seconds
  synced_items,     \* the per-SyncDir visited pairs
  stack,            \* call stack of sync_local_directory / sync_remote_directory
  pc,               \* position of the 'main loop
  remotes_iter,     \* `for remote in remotes`: what is left
  sync_dirs_iter,   \* `for sync_dir in sync_dirs`: what is left
  remote,           \* the loop variable `remote`
  sync_dir,         \* the loop variable `sync_dir`
  drain,            \* position inside a drain of the deletion queues
  CLOSE_REQUEST,
  OPEN_REQUEST,
  panic,            \* "none", or the place where the thread panicked
  oplog,            \* observer: operations performed by the current pass
  hist,             \* observer: facts recorded for the properties
  env               \* budgets of the environment (edits, requests, faults, stops)
                    \* and the tray process

vars == <<remotes_tbl, dirs_tbl, items_tbl, configs, directory_map, stack_ui,
          error_items, error_count, remote_deletion_queue,
          sync_dir_deletion_queue, borrowed, lfs, rfs, ignore_file, clock,
          synced_items, stack, pc, remotes_iter, sync_dirs_iter, remote,
          sync_dir, drain, CLOSE_REQUEST, OPEN_REQUEST, panic, oplog, hist, env>>

----------------------------------------------------------------------------
(* Bounds of the model *)

\* Number of changes the user makes to the trees between two passes.
MaxEdits == 2
\* Number of requests (removals, added folders) the user makes in the window.
MaxEnq == 2
\* Highest modification time of a node in an initial state.
MaxInitTs == 2
\* Number of passes of the 'main loop that are followed.
MaxPasses == 3
\* Number of times the application is started.
MaxRuns == 2
\* Number of times the stop signal is sent, and number of calls that fail.
MaxStops == 1
MaxFaults == 1

----------------------------------------------------------------------------
(* Strings and paths *)

SEP == "/"

P_d  == <<"d">>
P_dx == <<"d", "x">>
P_f  == <<"f">>
RelPaths == {P_d, P_dx, P_f}
Root == << >>

Parent(p) == SubSeq(p, 1, Len(p) - 1)

IsPrefix(s, t) == Len(s) <= Len(t) /\ SubSeq(t, 1, Len(s)) = s

\* The relative path as a string: segments joined by "/".
RECURSIVE Join(_)
Join(p) ==
  IF Len(p) = 0 THEN << >>
  ELSE IF Len(p) = 1 THEN p
  ELSE <<p[1], SEP>> \o Join(Tail(p))

\* str::contains('/')
ContainsSep(s) == \E i \in 1..Len(s) : s[i] = SEP

\* str::strip_prefix(prefix).unwrap(); "PANIC" stands for the None.unwrap()
StripPrefix(s, prefix) ==
  IF IsPrefix(prefix, s) THEN SubSeq(s, Len(prefix) + 1, Len(s)) ELSE <<"PANIC">>

\* str::strip_suffix('/'), kept when absent
StripSuffixSep(s) ==
  IF Len(s) > 0 /\ s[Len(s)] = SEP THEN SubSeq(s, 1, Len(s) - 1) ELSE s

\* sync_local_directory: `local_path`, the entry's path as a string.
LocalPathL(sd, p) == sd.local_path \o <<SEP>> \o Join(p)

\* sync_local_directory: `remote_path`, the path from the root of the remote.
RemotePathL(sd, local_path) ==
  LET local_path_stripped == StripPrefix(local_path, sd.local_path \o <<SEP>>)
      stripped_path       == StripSuffixSep(local_path_stripped)
  IN  IF sd.remote_path = << >> THEN stripped_path
      ELSE sd.remote_path \o <<SEP>> \o stripped_path

\* sync_local_directory: `stripped_remote_path`, what the patterns are tested on.
StrippedRemotePath(sd, remote_path) ==
  IF ContainsSep(remote_path) /\ ContainsSep(sd.remote_path)
  THEN StripPrefix(remote_path, sd.remote_path \o <<SEP>>)
  ELSE remote_path

\* rclone::sync::list: `item.path` of the entry at p, the path from the root of
\* the remote (sync_remote_directory passes it on as `remote_dir`).
ItemPath(sd, p) ==
  IF sd.remote_path = << >> THEN Join(p)
  ELSE sd.remote_path \o <<SEP>> \o Join(p)

\* sync_remote_directory: `local_path_string`.
LocalPathR(sd, item_path) ==
  sd.local_path \o <<SEP>> \o StripPrefix(item_path, sd.remote_path)

\* The path of an entry relative to the SyncDir's remote root.
RelString(p) == Join(p)

\* glob::Pattern::matches, on tokens: "*" matches any run of tokens, the
\* separator included (MatchOptions::require_literal_separator is false).
RECURSIVE PatternMatches(_, _)
PatternMatches(pat, s) ==
  IF pat = << >> THEN s = << >>
  ELSE IF Head(pat) = "*"
       THEN PatternMatches(Tail(pat), s)
            \/ (s # << >> /\ PatternMatches(pat, Tail(s)))
       ELSE s # << >> /\ Head(s) = Head(pat)
            /\ PatternMatches(Tail(pat), Tail(s))

\* ignore_globs.iter().filter(|pattern| pattern.matches(..)).count() > 0
IgnoredBy(globs, s) == \E pat \in globs : PatternMatches(pat, s)

----------------------------------------------------------------------------
(* File trees *)

NoNode == [k |-> "none", ts |-> 0, c |-> 0]
FileNode(t, content) == [k |-> "file", ts |-> t, c |-> content]
DirNode(t) == [k |-> "dir", ts |-> t, c |-> 0]

EmptyTree == [p \in RelPaths |-> NoNode]

\* p and everything below it
Below(p) == {q \in RelPaths : IsPrefix(p, q)}

\* names of the entries of directory dir
Entries(tree, dir) ==
  {q \in RelPaths : Len(q) = Len(dir) + 1 /\ IsPrefix(dir, q) /\ tree[q].k # "none"}

\* A tree is well formed when every node has a directory above it.
WellFormed(tree) ==
  \A q \in RelPaths :
    (tree[q].k # "none" /\ Len(q) > 1) => tree[Parent(q)].k = "dir"

\* Creating or removing an entry sets the modification time of its directory
\* (the SyncDir root itself is not an item and has no node).
Touched(tree, p, now) ==
  IF Len(p) > 1 /\ tree[Parent(p)].k = "dir"
  THEN [tree EXCEPT ![Parent(p)].ts = now]
  ELSE tree

\* fs::remove_file, fs::remove_dir_all
RemoveLocal(tree, p, now) ==
  Touched([q \in RelPaths |-> IF q \in Below(p) THEN NoNode ELSE tree[q]], p, now)

\* fs::create_dir
CreateDirLocal(tree, p, now) ==
  Touched([tree EXCEPT ![p] = DirNode(now)], p, now)

\* The modification time a copy leaves on its destination: the adapter keeps
\* the source's ("keep") or sets the time of the copy ("now").
CopyTs(src, tch, now) == IF tch = "keep" THEN src.ts ELSE now

\* rclone::sync::copy_to_local: whole-item copy, a directory recursively.
CopyToLocal(ltree, rtree, p, tch, now) ==
  LET made == ltree[p].k = "none"
      new  == [q \in RelPaths |->
                 IF q \in Below(p) /\ rtree[q].k # "none"
                 THEN [rtree[q] EXCEPT !.ts = CopyTs(rtree[q], tch, now)]
                 ELSE IF q \in Below(p) THEN NoNode ELSE ltree[q]]
  IN  IF made THEN Touched(new, p, now) ELSE new

\* rclone::sync::copy_to_remote
CopyToRemote(ltree, rtree, p, tch, now) ==
  [q \in RelPaths |->
     IF q \in Below(p) /\ ltree[q].k # "none"
     THEN [ltree[q] EXCEPT !.ts = CopyTs(ltree[q], tch, now)]
     ELSE IF q \in Below(p) THEN NoNode ELSE rtree[q]]

\* rclone::sync::purge (recursive) and rclone::sync::delete
PurgeRemote(rtree, p) ==
  [q \in RelPaths |-> IF q \in Below(p) THEN NoNode ELSE rtree[q]]

\* rclone::sync::mkdir: creates the directory when it is not there
MkdirRemote(rtree, p, now) ==
  IF rtree[p].k = "dir" THEN rtree ELSE [rtree EXCEPT ![p] = DirNode(now)]

----------------------------------------------------------------------------
(* The store, the error list and the operations log, as seen by one item.   *)
(* W is the part of the state an item's processing reads and writes:        *)
(*   l, r     the local and the remote tree of the SyncDir                  *)
(*   items    table SyncItems                                               *)
(*   ei, ec   the SyncDir's error_items and error count                     *)
(*   synced   synced_items                                                  *)
(*   log      the operations log                                            *)
(*   panic    "none" or the place of the panic                              *)
(*   fh       whether the injected fault was met                            *)
(*   stopped  CLOSE_REQUEST                                                 *)

Min(S) == CHOOSE x \in S : \A y \in S : x <= y
Max(S) == CHOOSE x \in S : \A y \in S : x >= y

PairOf(sd) == [l |-> sd.local_path, r |-> sd.remote_path]

\* directory_map.get(&remote.name).unwrap().get(&path_pair) is Some
InDirectoryMap(rem, sd) == PairOf(sd) \in directory_map[rem]

\* sync_dir.exists(db)
Exists(sd) == sd \in dirs_tbl

Log(W, op, p, w) == [W EXCEPT !.log = @ \cup {[op |-> op, p |-> p, w |-> w]}]

Panic(W, where) == IF W.panic = "none" THEN [W EXCEPT !.panic = where] ELSE W

General(path, msg) == [kind |-> "General", a |-> path, b |-> <<msg>>]
BothMoreCurrent(local_item, remote_item) ==
  [kind |-> "BothMoreCurrent", a |-> local_item, b |-> remote_item]

\* the closure add_error
add_error(W, sd, error, p, w) ==
  IF W.panic # "none" THEN W
  ELSE IF ~ InDirectoryMap(remote, sd) THEN Panic(W, "add_error")
  ELSE Log([W EXCEPT !.ei = @ \cup {error}, !.ec = @ + 1], error.kind, p, w)

\* SyncItemsEntity::find().filter(LocalPath).filter(RemotePath).one(db):
\* the index of the first matching row, 0 for None
FindItem(items, lp, rp) ==
  LET idx == {i \in 1..Len(items) :
                items[i].local_path = lp /\ items[i].remote_path = rp}
  IN  IF idx = {} THEN 0 ELSE Min(idx)

NextId(items) ==
  IF Len(items) = 0 THEN 1 ELSE 1 + Max({items[i].id : i \in 1..Len(items)})

\* the closure update_db_item: active_model.update(db).unwrap()
update_db_item(W, id, local_timestamp, remote_timestamp, p, w) ==
  LET idx == {i \in 1..Len(W.items) : W.items[i].id = id}
  IN  IF W.panic # "none" THEN W
      ELSE IF idx = {} THEN Panic(W, "update_db_item")
      ELSE Log([W EXCEPT !.items[Min(idx)].last_local_timestamp = local_timestamp,
                         !.items[Min(idx)].last_remote_timestamp = remote_timestamp],
               "db_update", p, w)

RemoveAt(seq, i) == SubSeq(seq, 1, i - 1) \o SubSeq(seq, i + 1, Len(seq))

\* the closure delete_db_entry: find by SyncDirId, LocalPath, RemotePath,
\* .unwrap().unwrap().delete(db)
delete_db_entry(W, sd, lp, rp, p, w) ==
  LET idx == {i \in 1..Len(W.items) :
                /\ W.items[i].sync_dir_id = sd.id
                /\ W.items[i].local_path = lp
                /\ W.items[i].remote_path = rp}
  IN  IF W.panic # "none" THEN W
      ELSE IF idx = {} THEN Panic(W, "delete_db_entry")
      ELSE Log([W EXCEPT !.items = RemoveAt(@, Min(idx))], "db_delete", p, w)

\* SyncItemsActiveModel { .. }.insert(db)
InsertItem(W, sd, lp, rp, local_timestamp, remote_timestamp, p, w) ==
  IF W.panic # "none" THEN W
  ELSE Log([W EXCEPT !.items = Append(@,
              [id |-> NextId(W.items), sync_dir_id |-> sd.id,
               local_path |-> lp, remote_path |-> rp,
               last_local_timestamp |-> local_timestamp,
               last_remote_timestamp |-> remote_timestamp])],
           "db_insert", p, w)

\* An adapter or filesystem call fails when it is the injected fault.
Fails(ch, call) == ch.f = call
Met(W) == [W EXCEPT !.fh = TRUE]

----------------------------------------------------------------------------
(* sync_local_directory: one entry of the directory *)

\* What an entry's processing hands back: the state, and, when the entry is a
\* directory whose push or pull recurses, the call that is pending (rec).
NoSav == [kind |-> "none", lts |-> 0, rts |-> 0, id |-> 0]
Finished(W) == [W |-> W, rec |-> FALSE, sav |-> NoSav]
Recurse(W, sav) == [W |-> W, rec |-> TRUE, sav |-> sav]
Res(W, res) == [W |-> W, res |-> res]

\* The width the 64-bit timestamps are modelled with: an i64 is in
\* -2^(TimestampBits-1) .. 2^(TimestampBits-1)-1 and a u64 in
\* 0 .. 2^TimestampBits-1.
TimestampBits == 16

\* u64 from the i64 remote timestamp (`remote_timestamp as u64`): the same
\* bits, so a negative value becomes the value plus 2^width
AsU64(t) == t % (2 ^ TimestampBits)

\* lines 1835-1875: the branch taken when the entry has a baseline b.
\* lnode is the local entry, rnode the result of stat (kind "none" for None).
ClassifyLocalMutNoDelete(lnode, rnode, b) ==
  IF lnode.ts > b.last_local_timestamp /\ rnode.k # "none"
     /\ rnode.ts > b.last_remote_timestamp THEN "conflict"
  ELSE IF lnode.ts > b.last_local_timestamp THEN "push"
  ELSE IF rnode.k # "none" /\ rnode.ts > b.last_remote_timestamp THEN "pull"
  ELSE IF rnode.k = "none" /\ lnode.ts = b.last_local_timestamp THEN "push"
  ELSE IF lnode.ts = b.last_local_timestamp /\ rnode.k # "none"
          /\ rnode.ts = b.last_remote_timestamp THEN "noop"
  ELSE "unreachable"

ClassifyLocal(lnode, rnode, b) ==
  IF lnode.ts > b.last_local_timestamp /\ rnode.k # "none"
     /\ rnode.ts > b.last_remote_timestamp THEN "conflict"
  ELSE IF lnode.ts > b.last_local_timestamp THEN "push"
  ELSE IF rnode.k # "none" /\ rnode.ts > b.last_remote_timestamp THEN "pull"
  ELSE IF rnode.k = "none" /\ lnode.ts = b.last_local_timestamp THEN "delete_local"
  ELSE IF lnode.ts = b.last_local_timestamp /\ rnode.k # "none"
          /\ rnode.ts = b.last_remote_timestamp THEN "noop"
  ELSE "unreachable"

\* The first sync with equal timestamps resolved to a push.
FirstSyncLocalMutPushOnEqual(lnode, rnode) ==
  IF rnode.k # "none"
  THEN IF lnode.ts >= AsU64(rnode.ts) THEN "push" ELSE "pull"
  ELSE "push"

\* lines 1882-1894: the side that wins when the entry has no baseline.
FirstSyncLocal(lnode, rnode) ==
  IF rnode.k # "none"
  THEN IF lnode.ts > AsU64(rnode.ts) THEN "push" ELSE "pull"
  ELSE "push"

\* the closure push_local_to_remote, up to the recursive call (lines 1714-1757)
PushLocalPre(W, sd, p, ch) ==
  LET local_path  == LocalPathL(sd, p)
      remote_path == RemotePathL(sd, local_path)
      lnode == W.l[p]
      rnode == W.r[p]
      same_type == lnode.k = "dir" /\ rnode.k = "dir"
      purges == rnode.k # "none" /\ ~ same_type
      W1 == IF purges
            THEN Log([W EXCEPT !.r = PurgeRemote(@, p)], "purge", p, "L")
            ELSE W
  IN  IF purges /\ Fails(ch, "purge")
      THEN Res(add_error(Met(W), sd, General(remote_path, "purge"), p, "L"), "err")
      ELSE IF lnode.k = "dir"
      THEN IF Fails(ch, "mkdir")
           THEN Res(add_error(Met(W1), sd, General(remote_path, "mkdir"), p, "L"), "err")
           ELSE Res(Log([W1 EXCEPT !.r = MkdirRemote(@, p, clock)], "mkdir", p, "L"),
                    "recurse")
      ELSE IF Fails(ch, "copy")
           THEN Res(add_error(Met(W1), sd, General(local_path, "copy"), p, "L"), "err")
           ELSE Res(Log([W1 EXCEPT !.r = CopyToRemote(W1.l, @, p, ch.t, clock)],
                        "copy_to_remote", p, "L"), "ok")

\* the closure pull_remote_to_local, up to the recursive call (lines 1764-1797).
\* After a successful remove_dir_all the `else if` runs remove_file on the
\* path just removed, which fails.
PullLocalPre(W, sd, p, ch) ==
  LET local_path  == LocalPathL(sd, p)
      remote_path == RemotePathL(sd, local_path)
      lnode == W.l[p]
      rnode == W.r[p]
      same_type == lnode.k = "dir" /\ rnode.k = "dir"
      removed == Log([W EXCEPT !.l = RemoveLocal(@, p, clock)], "remove_local", p, "L")
      W1 == IF same_type THEN W ELSE removed
  IN  IF ~ same_type /\ Fails(ch, "remove")
      THEN Res(add_error(Met(W), sd, General(local_path, "remove"), p, "L"), "err")
      ELSE IF ~ same_type /\ lnode.k = "dir"
      THEN Res(add_error(removed, sd, General(local_path, "remove_file"), p, "L"), "err")
      ELSE IF lnode.k = "dir"
      THEN Res(W1, "recurse")
      ELSE IF Fails(ch, "copy")
           THEN Res(add_error(Met(W1), sd, General(remote_path, "copy"), p, "L"), "err")
           ELSE Res(Log([W1 EXCEPT !.l = CopyToLocal(@, W1.r, p, ch.t, clock)],
                        "copy_to_local", p, "L"), "ok")

\* What follows the transfer (for a directory: the return of the recursive
\* call): the stat that ends push_local_to_remote and the write of the baseline.
LocalAfter(W, sd, p, sav, ch) ==
  LET local_path  == LocalPathL(sd, p)
      remote_path == RemotePathL(sd, local_path)
      pushes == sav.kind \in {"pushB", "pushN"}
  IN  IF W.panic # "none" THEN W
      ELSE IF pushes /\ (Fails(ch, "stat2") \/ W.r[p].k = "none")
      THEN Panic(Met(W), "push_stat_unwrap")
      ELSE IF sav.kind \in {"pushB", "pullB"}
      THEN IF W.l[p].k = "none" THEN Panic(W, "metadata_unwrap")
           ELSE update_db_item(W, sav.id, W.l[p].ts,
                               IF sav.kind = "pushB" THEN W.r[p].ts ELSE sav.rts,
                               p, "L")
      ELSE IF Fails(ch, "stat3")
      THEN add_error(Met(W), sd, General(remote_path, "stat"), p, "L")
      ELSE IF W.r[p].k = "none" THEN Panic(W, "stat_none_unwrap")
      ELSE InsertItem(W, sd, local_path, remote_path, sav.lts, W.r[p].ts, p, "L")

\* A push or pull, then what follows it unless the entry is a directory.
Transfer(W, sd, p, sav, ch) ==
  LET r == IF sav.kind \in {"pushB", "pushN"}
           THEN PushLocalPre(W, sd, p, ch) ELSE PullLocalPre(W, sd, p, ch)
  IN  IF r.res = "err" THEN Finished(r.W)
      ELSE IF r.res = "recurse" THEN Recurse(r.W, sav)
      ELSE Finished(LocalAfter(r.W, sd, p, sav, ch))

\* lines 1820-1875
LocalWithBaseline(W, sd, p, b, ch) ==
  LET local_path  == LocalPathL(sd, p)
      remote_path == RemotePathL(sd, local_path)
      lnode == W.l[p]
      rnode == W.r[p]
      act == ClassifyLocal(lnode, rnode, b)
      sav == [kind |-> IF act = "push" THEN "pushB" ELSE "pullB",
              lts |-> lnode.ts, rts |-> rnode.ts, id |-> b.id]
  IN  CASE act = "conflict" ->
             IF lnode.k # "dir" \/ rnode.k # "dir"
             THEN Finished(add_error(W, sd, BothMoreCurrent(local_path, remote_path),
                                     p, "L"))
             ELSE Finished(W)
        [] act \in {"push", "pull"} -> Transfer(W, sd, p, sav, ch)
        [] act = "delete_local" ->
             IF Fails(ch, "remove")
             THEN Finished(add_error(Met(W), sd, General(local_path, "remove"), p, "L"))
             ELSE Finished(delete_db_entry(
                    Log([W EXCEPT !.l = RemoveLocal(@, p, clock)], "remove_local", p, "L"),
                    sd, local_path, remote_path, p, "L"))
        [] act = "noop" -> Finished(W)
        [] OTHER -> Finished(Panic(W, "unreachable"))

\* lines 1879-1937
LocalFirstSync(W, sd, p, ch) ==
  LET lnode == W.l[p]
      rnode == W.r[p]
      sav == [kind |-> IF FirstSyncLocal(lnode, rnode) = "push" THEN "pushN" ELSE "pullN",
              lts |-> lnode.ts, rts |-> rnode.ts, id |-> 0]
  IN  Transfer(W, sd, p, sav, ch)

\* LocalItem with a stat that failed read as "nothing on the remote"
LocalItemMutStatErrorAbsent(W, sd, p, ch) ==
  LET local_path  == LocalPathL(sd, p)
      remote_path == RemotePathL(sd, local_path)
      W1  == [W EXCEPT !.synced = @ \cup {<<local_path, remote_path>>},
                       !.stopped = @ \/ ch.s]
      idx == FindItem(W.items, local_path, remote_path)
  IN  IF IgnoredBy(ignore_file[sd.id], StrippedRemotePath(sd, remote_path))
      THEN Finished(W)
      ELSE IF Fails(ch, "stat")
      THEN IF idx # 0 /\ W.l[p].ts = W.items[idx].last_local_timestamp
           THEN Finished(delete_db_entry(
                  Log([Met(W1) EXCEPT !.l = RemoveLocal(@, p, clock)],
                      "remove_local", p, "L"),
                  sd, local_path, remote_path, p, "L"))
           ELSE Finished(add_error(Met(W1), sd, General(remote_path, "stat"), p, "L"))
      ELSE IF idx # 0 THEN LocalWithBaseline(W1, sd, p, W.items[idx], ch)
      ELSE LocalFirstSync(W1, sd, p, ch)

\* lines 1638-1937: one iteration of `for item in directory`, after the checks
\* of CLOSE_REQUEST and sync_dir.exists
LocalItem(W, sd, p, ch) ==
  LET local_path  == LocalPathL(sd, p)
      remote_path == RemotePathL(sd, local_path)
      W1  == [W EXCEPT !.synced = @ \cup {<<local_path, remote_path>>},
                       !.stopped = @ \/ ch.s]
      idx == FindItem(W.items, local_path, remote_path)
  IN  IF IgnoredBy(ignore_file[sd.id], StrippedRemotePath(sd, remote_path))
      THEN Finished(W)
      ELSE IF Fails(ch, "stat")
      THEN Finished(add_error(Met(W1), sd, General(remote_path, "stat"), p, "L"))
      ELSE IF idx # 0 THEN LocalWithBaseline(W1, sd, p, W.items[idx], ch)
      ELSE LocalFirstSync(W1, sd, p, ch)

----------------------------------------------------------------------------
(* sync_remote_directory: one entry of the listing *)

\* lines 2245-2285: the branch taken when the entry has a baseline b.
\* lnode is the local path's node (kind "none": local_timestamp is None),
\* item the listed remote entry.
ClassifyRemote(lnode, item, b) ==
  IF lnode.k # "none" /\ lnode.ts > b.last_local_timestamp
     /\ item.ts > b.last_remote_timestamp THEN "conflict"
  ELSE IF lnode.k # "none" /\ lnode.ts > b.last_local_timestamp THEN "push"
  ELSE IF item.ts > b.last_remote_timestamp THEN "pull"
  ELSE IF lnode.k = "none" /\ item.ts = b.last_remote_timestamp THEN "purge_remote"
  ELSE IF lnode.k # "none" /\ lnode.ts = b.last_local_timestamp
          /\ item.ts = b.last_remote_timestamp THEN "noop"
  ELSE "unreachable"

\* lines 2292-2305: the side that wins when the entry has no baseline.
FirstSyncRemote(lnode, item) ==
  IF lnode.k # "none"
  THEN IF lnode.ts > AsU64(item.ts) THEN "push" ELSE "pull"
  ELSE "pull"

\* the closure push_local_to_remote, up to the recursive call (lines 2081-2141)
PushRemotePre(W, sd, p, ch) ==
  LET remote_path_string == ItemPath(sd, p)
      lnode == W.l[p]
      item  == W.r[p]
      deleted == Log([W EXCEPT !.r = PurgeRemote(@, p)], "delete", p, "R")
      made    == Log([deleted EXCEPT !.r = MkdirRemote(@, p, clock)], "mkdir", p, "R")
      purged  == IF item.k = "dir"
                 THEN Log([W EXCEPT !.r = PurgeRemote(@, p)], "purge", p, "R")
                 ELSE W
  IN  IF lnode.k = "dir"
      THEN IF item.k = "dir" THEN Res(W, "recurse")
           ELSE IF Fails(ch, "delete")
           THEN Res(add_error(Met(W), sd, General(remote_path_string, "delete"), p, "R"),
                    "err")
           ELSE IF Fails(ch, "mkdir")
           THEN Res(add_error(Met(deleted), sd, General(remote_path_string, "mkdir"),
                              p, "R"), "err")
           ELSE Res(made, "recurse")
      ELSE IF item.k = "dir" /\ Fails(ch, "purge")
      THEN Res(add_error(Met(W), sd, General(remote_path_string, "purge"), p, "R"), "err")
      ELSE IF Fails(ch, "copy")
      THEN Res(add_error(Met(purged), sd, General(remote_path_string, "copy"), p, "R"),
               "err")
      ELSE Res(Log([purged EXCEPT !.r = CopyToRemote(purged.l, @, p, ch.t, clock)],
                   "copy_to_remote", p, "R"), "ok")

\* the closure pull_remote_to_local, up to the recursive call (lines 2149-2207)
PullRemotePre(W, sd, p, ch) ==
  LET remote_path_string == ItemPath(sd, p)
      local_path_string  == LocalPathR(sd, remote_path_string)
      lnode == W.l[p]
      item  == W.r[p]
      mismatch == lnode.k # "none" /\ lnode.k # item.k
      removed == IF mismatch
                 THEN Log([W EXCEPT !.l = RemoveLocal(@, p, clock)], "remove_local", p, "R")
                 ELSE W
      creates == item.k = "dir" /\ lnode.k # "dir"
      created == IF creates
                 THEN Log([removed EXCEPT !.l = CreateDirLocal(@, p, clock)],
                          "create_dir", p, "R")
                 ELSE removed
  IN  IF mismatch /\ Fails(ch, "remove")
      THEN Res(add_error(Met(W), sd, General(local_path_string, "remove"), p, "R"), "err")
      ELSE IF creates /\ Fails(ch, "create_dir")
      THEN Res(add_error(Met(removed), sd, General(local_path_string, "create_dir"),
                         p, "R"), "err")
      ELSE IF item.k = "dir" THEN Res(created, "recurse")
      ELSE IF Fails(ch, "copy")
      THEN Res(add_error(Met(removed), sd, General(remote_path_string, "copy"), p, "R"),
               "err")
      ELSE Res(Log([removed EXCEPT !.l = CopyToLocal(@, removed.r, p, ch.t, clock)],
                   "copy_to_local", p, "R"), "ok")

\* lines 2308-2339: the baseline inserted at the end of the iteration
RemoteInsert(W, sd, p, ch) ==
  LET remote_path_string == ItemPath(sd, p)
      local_path_string  == LocalPathR(sd, remote_path_string)
  IN  IF W.panic # "none" THEN W
      ELSE IF W.l[p].k = "none" THEN Panic(W, "local_timestamp_unwrap")
      ELSE IF Fails(ch, "stat3")
      THEN add_error(Met(W), sd, General(remote_path_string, "stat"), p, "R")
      ELSE IF W.r[p].k = "none" THEN Panic(W, "stat_none_unwrap")
      ELSE InsertItem(W, sd, local_path_string, remote_path_string,
                      W.l[p].ts, W.r[p].ts, p, "R")

\* What follows the transfer (for a directory: the return of the recursive
\* call). After a pull against a baseline the code updates the baseline and
\* goes on to the insert at the end of the iteration (no `continue`).
RemoteAfter(W, sd, p, sav, ch) ==
  LET pushes == sav.kind \in {"pushB", "pushN"}
      W1 == IF W.l[p].k = "none" THEN Panic(W, "local_timestamp_unwrap")
            ELSE update_db_item(W, sav.id, W.l[p].ts,
                                IF sav.kind = "pushB" THEN W.r[p].ts ELSE sav.rts,
                                p, "R")
  IN  IF W.panic # "none" THEN W
      ELSE IF pushes /\ (Fails(ch, "stat2") \/ W.r[p].k = "none")
      THEN Panic(Met(W), "push_stat_unwrap")
      ELSE IF sav.kind = "pushB" THEN W1
      ELSE IF sav.kind = "pullB" THEN RemoteInsert(W1, sd, p, ch)
      ELSE RemoteInsert(W, sd, p, ch)

TransferRemote(W, sd, p, sav, ch) ==
  LET r == IF sav.kind \in {"pushB", "pushN"}
           THEN PushRemotePre(W, sd, p, ch) ELSE PullRemotePre(W, sd, p, ch)
  IN  IF r.res = "err" THEN Finished(r.W)
      ELSE IF r.res = "recurse" THEN Recurse(r.W, sav)
      ELSE Finished(RemoteAfter(r.W, sd, p, sav, ch))

\* lines 2233-2285
RemoteWithBaseline(W, sd, p, b, ch) ==
  LET remote_path_string == ItemPath(sd, p)
      local_path_string  == LocalPathR(sd, remote_path_string)
      lnode == W.l[p]
      item  == W.r[p]
      act == ClassifyRemote(lnode, item, b)
      sav == [kind |-> IF act = "push" THEN "pushB" ELSE "pullB",
              lts |-> lnode.ts, rts |-> item.ts, id |-> b.id]
  IN  CASE act = "conflict" ->
             IF lnode.k # "dir" \/ item.k # "dir"
             THEN Finished(add_error(W, sd,
                    BothMoreCurrent(local_path_string, remote_path_string), p, "R"))
             ELSE Finished(W)
        [] act \in {"push", "pull"} -> TransferRemote(W, sd, p, sav, ch)
        [] act = "purge_remote" ->
             IF Fails(ch, "purge")
             THEN Finished(delete_db_entry(
                    add_error(Met(W), sd, General(remote_path_string, "purge"), p, "R"),
                    sd, local_path_string, remote_path_string, p, "R"))
             ELSE Finished(Log([W EXCEPT !.r = PurgeRemote(@, p)], "purge", p, "R"))
        [] act = "noop" -> Finished(W)
        [] OTHER -> Finished(Panic(W, "unreachable"))

\* lines 2289-2306
RemoteFirstSync(W, sd, p, ch) ==
  LET lnode == W.l[p]
      item  == W.r[p]
      sav == [kind |-> IF FirstSyncRemote(lnode, item) = "push" THEN "pushN" ELSE "pullN",
              lts |-> lnode.ts, rts |-> item.ts, id |-> 0]
  IN  TransferRemote(W, sd, p, sav, ch)

\* lines 2029-2339: one iteration of `for item in items`, after the checks of
\* CLOSE_REQUEST and sync_dir.exists
RemoteItem(W, sd, p, ch) ==
  LET remote_path_string == ItemPath(sd, p)
      local_path_string  == LocalPathR(sd, remote_path_string)
      idx == FindItem(W.items, local_path_string, remote_path_string)
      W1  == [W EXCEPT !.stopped = @ \/ ch.s]
  IN  IF IgnoredBy(ignore_file[sd.id], remote_path_string) THEN Finished(W)
      ELSE IF <<local_path_string, remote_path_string>> \in W.synced THEN Finished(W)
      ELSE IF idx # 0 THEN RemoteWithBaseline(W1, sd, p, W.items[idx], ch)
      ELSE RemoteFirstSync(W1, sd, p, ch)

----------------------------------------------------------------------------
(* State of the walk *)

\* A frame of sync_local_directory (w = "L") or sync_remote_directory ("R"):
\*   dir   the directory walked (relative path, Root for the SyncDir itself)
\*   ph    "drain": at process_deletion_requests(); "list": at read_dir / list;
\*         "items": in the loop over the entries
\*   todo  entries the loop has not reached
\*   cur   the directory entry whose recursive call is running (Root: none)
\*   sav   what the entry's closure keeps across the recursive call
Frame(w, dir) ==
  [w |-> w, dir |-> dir, ph |-> "drain", todo |-> {}, cur |-> Root, sav |-> NoSav]

Top == stack[Len(stack)]
SetTop(f) == [stack EXCEPT ![Len(stack)] = f]
Pop == SubSeq(stack, 1, Len(stack) - 1)

\* drain: at   "none", or the drain that runs: "top" (of a remote) or "level"
\*        st   the step of the removal of a remote that comes next
\*        y    whether the drain has made a blocking call, in which the
\*             main loop of the window runs the callbacks of the user's actions
NoDrain == [at |-> "none", name |-> "", dirs |-> << >>, st |-> "none", y |-> FALSE]

FaultNames == {"none", "list", "stat", "purge", "mkdir", "copy", "remove", "delete",
               "create_dir", "stat2", "stat3"}
\* What an iteration is left to chance: t, the modification time a copy
\* leaves; f, the call that fails; s, whether the stop signal is set (by the
\* D-Bus method close, or by the Quit button in a blocking call) while the
\* iteration's first adapter or database call runs.
Choices ==
  {[t |-> t, f |-> f, s |-> s] :
     t \in {"keep", "now"},
     f \in IF env.faults > 0 THEN FaultNames ELSE {"none"},
     s \in IF env.close > 0 THEN BOOLEAN ELSE {FALSE}}

\* The part of the state an entry's processing works on, and its write-back.
World(sd) ==
  [l |-> lfs[sd.id], r |-> rfs[sd.id], items |-> items_tbl,
   ei |-> error_items[sd.id], ec |-> error_count[sd.id],
   synced |-> synced_items, log |-> oplog, panic |-> panic, fh |-> FALSE,
   stopped |-> CLOSE_REQUEST]

Commit(W, sd) ==
  /\ lfs' = [lfs EXCEPT ![sd.id] = W.l]
  /\ rfs' = [rfs EXCEPT ![sd.id] = W.r]
  /\ items_tbl' = W.items
  /\ error_items' = [error_items EXCEPT ![sd.id] = W.ei]
  /\ error_count' = [error_count EXCEPT ![sd.id] = W.ec]
  /\ synced_items' = W.synced
  /\ oplog' = W.log
  /\ panic' = W.panic
  /\ CLOSE_REQUEST' = W.stopped
  /\ env' = [env EXCEPT !.faults = IF W.fh THEN @ - 1 ELSE @,
                        !.close = IF W.stopped /\ ~ CLOSE_REQUEST THEN @ - 1 ELSE @]

dbVars    == <<remotes_tbl, dirs_tbl, configs>>
uiVars    == <<directory_map, stack_ui>>
errVars   == <<error_items, error_count>>
queueVars == <<remote_deletion_queue, sync_dir_deletion_queue, borrowed, drain>>
treeVars  == <<lfs, rfs, ignore_file, clock>>
loopVars  == <<pc, remotes_iter, sync_dirs_iter, remote, sync_dir>>
flagVars  == <<CLOSE_REQUEST, OPEN_REQUEST>>

Running == panic = "none"

----------------------------------------------------------------------------
(* The 'main loop (lines 1123-2415) *)

RemoteOrder == <<"r1", "r2">>
DirOrder == <<"A", "B", "C">>

RECURSIVE RowsInOrder(_, _)
\* SyncDirsEntity::find()...all(db): the rows of S by id
RowsInOrder(S, order) ==
  IF order = << >> THEN << >>
  ELSE LET here == {x \in S : x.id = Head(order)}
       IN  (IF here = {} THEN << >> ELSE <<CHOOSE x \in here : TRUE>>)
           \o RowsInOrder(S, Tail(order))

\* SyncDirsEntity::find().filter(RemoteId.eq(..)).all(db)
DirsOf(name) == RowsInOrder({x \in dirs_tbl : x.remote = name}, DirOrder)

\* celeste-tray main.rs: the tray after TrayApp::start (launch.rs:1078), in
\* its loop (56) with its own CLOSE_REQUEST (7) not set
TrayStarted == [pc |-> "loop", CLOSE_REQUEST |-> FALSE]

\* The tray after the application has called its Close (main.rs:15-17) and
\* killed it (drop(tray_app), launch.rs:2419 and 195-199)
TrayKilled(tray) ==
  [pc |-> "done", CLOSE_REQUEST |-> tray.CLOSE_REQUEST \/ tray.pc = "loop"]

\* lines 1123-1171: top of 'main; the pass bound does not hold back the exit
MainTop ==
  /\ Running /\ pc = "main"
  /\ hist.pass < MaxPasses \/ CLOSE_REQUEST
  /\ IF CLOSE_REQUEST
     THEN /\ pc' = "exit"
          /\ env' = [env EXCEPT !.tray = TrayKilled(@)]
          /\ UNCHANGED <<remotes_iter, oplog, hist>>
     ELSE IF remotes_tbl = {}
     THEN /\ pc' = "login"
          /\ UNCHANGED <<remotes_iter, oplog, hist, env>>
     ELSE /\ pc' = "remote"
          /\ env' = env
          /\ remotes_iter' = SelectSeq(RemoteOrder, LAMBDA n : n \in remotes_tbl)
          /\ oplog' = {}
          /\ hist' = [hist EXCEPT !.pass = @ + 1, !.complete = FALSE,
                                  !.sent = "none",
                                  !.prev_clean = hist.clean /\ hist.complete,
                                  !.edits = hist.gap, !.gap = {},
                                  !.prev_failed =
                                    {e.p : e \in {x \in oplog : x.op = "General"}},
                                  !.start = [l |-> lfs, r |-> rfs,
                                             items |-> items_tbl,
                                             ec |-> error_count]]
  /\ UNCHANGED <<dbVars, items_tbl, uiVars, errVars, queueVars, treeVars,
                 synced_items, stack, sync_dirs_iter, remote, sync_dir,
                 flagVars, panic>>

ErrorKinds == {"General", "BothMoreCurrent"}

\* lines 386-396, 616: error_label is the heading of the errors section of a
\* SyncDir's page; it is built with this text and no code sets another.
error_label_text == <<"Sync Errors">>

\* lines 1105-1118: the entries of the directory map whose error_label has text
sync_errors_count ==
  Cardinality(UNION {{<<n, d>> : d \in {x \in directory_map[n] :
                                          error_label_text # << >>}} :
                     n \in DOMAIN directory_map})

\* lines 2401-2414: all remotes done. hist.sent is what the end of the pass
\* sends to the tray.
PassEnd ==
  /\ Running /\ pc = "remote" /\ remotes_iter = << >>
  /\ pc' = "main"
  /\ hist' = [hist EXCEPT !.complete = TRUE,
                          !.sent = IF sync_errors_count # 0
                                   THEN "Finished sync checks with errors."
                                   ELSE "SetDoneIcon",
                          !.clean = /\ ~ \E e \in oplog : e.op \in ErrorKinds
                                    /\ \A sd \in dirs_tbl : error_count[sd.id] = 0]
  /\ UNCHANGED <<dbVars, items_tbl, uiVars, errVars, queueVars, treeVars,
                 synced_items, stack, remotes_iter, sync_dirs_iter, remote,
                 sync_dir, flagVars, panic, oplog, env>>

\* lines 1173-1225: `for remote in remotes`, the drain of the remote queue at
\* the top of the body, then the query of the remote's SyncDirs
RemoteNext ==
  /\ Running /\ pc = "remote" /\ remotes_iter # << >>
  /\ remote' = Head(remotes_iter)
  /\ remotes_iter' = Tail(remotes_iter)
  /\ IF remote_deletion_queue = << >>
     THEN /\ pc' = "dirs"
          /\ sync_dirs_iter' = DirsOf(Head(remotes_iter))
          /\ UNCHANGED <<borrowed, drain>>
     ELSE /\ pc' = "top_drain"
          /\ borrowed' = {"remote_deletion_queue"}
          /\ drain' = [NoDrain EXCEPT !.at = "top"]
          /\ UNCHANGED sync_dirs_iter
  /\ UNCHANGED <<dbVars, items_tbl, uiVars, errVars, remote_deletion_queue,
                 sync_dir_deletion_queue, treeVars, synced_items, stack,
                 sync_dir, flagVars, panic, oplog, hist, env>>

\* lines 1227-1256 and 2343: `for sync_dir in sync_dirs` up to the first call
DirsNext ==
  /\ Running /\ pc = "dirs"
  /\ IF sync_dirs_iter = << >>
     THEN /\ pc' = "remote"
          /\ UNCHANGED <<sync_dirs_iter, sync_dir, panic, synced_items, stack>>
     ELSE LET sd == Head(sync_dirs_iter)
          IN  /\ sync_dir' = sd
              /\ sync_dirs_iter' = Tail(sync_dirs_iter)
              /\ IF ~ InDirectoryMap(remote, sd)
                 THEN /\ panic' = "dir_map_lookup"
                      /\ UNCHANGED <<pc, synced_items, stack>>
                 ELSE IF error_count[sd.id] # 0
                 THEN UNCHANGED <<pc, panic, synced_items, stack>>
                 ELSE /\ pc' = "walk"
                      /\ synced_items' = {}
                      /\ stack' = <<Frame("L", Root)>>
                      /\ UNCHANGED panic
  /\ UNCHANGED <<dbVars, items_tbl, uiVars, errVars, queueVars, treeVars,
                 remotes_iter, remote, flagVars, oplog, hist, env>>

\* lines 2366-2398: after the two walks of a SyncDir
AfterWalk ==
  /\ Running /\ pc = "after"
  /\ IF CLOSE_REQUEST \/ ~ Exists(sync_dir)
     THEN /\ pc' = "main"
          /\ hist' = [hist EXCEPT !.clean = FALSE]
          /\ UNCHANGED panic
     ELSE IF ~ InDirectoryMap(remote, sync_dir)
     THEN /\ panic' = "dir_map_lookup"
          /\ UNCHANGED <<pc, hist>>
     ELSE /\ pc' = "dirs"
          /\ UNCHANGED <<panic, hist>>
  /\ UNCHANGED <<dbVars, items_tbl, uiVars, errVars, queueVars, treeVars,
                 synced_items, stack, remotes_iter, sync_dirs_iter, remote,
                 sync_dir, flagVars, oplog, env>>

----------------------------------------------------------------------------
(* The two walks *)

worldVars == <<lfs, rfs, items_tbl, error_items, error_count, synced_items,
               oplog, panic, env, CLOSE_REQUEST>>

InWalk == Running /\ pc = "walk" /\ drain.at = "none" /\ stack # << >>

\* lines 1566 and 1961: process_deletion_requests() finds both queues empty
LevelDrainEmpty ==
  /\ InWalk /\ Top.ph = "drain"
  /\ remote_deletion_queue = << >> /\ sync_dir_deletion_queue = << >>
  /\ stack' = SetTop([Top EXCEPT !.ph = "list"])
  /\ UNCHANGED <<dbVars, uiVars, queueVars, ignore_file, clock, loopVars,
                 flagVars, hist, worldVars>>

\* lines 1568-1615 and 1963-2011: fs::read_dir(local_dir), or
\* rclone::sync::list(remote_dir); on an error add_error and return
LevelList ==
  /\ InWalk /\ Top.ph = "list"
  /\ \E ch \in Choices :
       LET f    == Top
           W    == World(sync_dir)
           tree == IF f.w = "L" THEN W.l ELSE W.r
           name == IF f.w = "L"
                   THEN (IF f.dir = Root THEN sync_dir.local_path
                         ELSE LocalPathL(sync_dir, f.dir))
                   ELSE (IF f.dir = Root THEN sync_dir.remote_path
                         ELSE ItemPath(sync_dir, f.dir))
           missing == f.dir # Root /\ tree[f.dir].k # "dir"
           failed  == missing \/ Fails(ch, "list")
           W1 == IF failed
                 THEN add_error(IF Fails(ch, "list") THEN Met(W) ELSE W, sync_dir,
                                General(name, "list"), f.dir, f.w)
                 ELSE W
       IN  /\ Commit(W1, sync_dir)
           /\ stack' = SetTop([f EXCEPT !.ph = "items",
                                        !.todo = IF failed THEN {}
                                                 ELSE Entries(tree, f.dir)])
  /\ UNCHANGED <<dbVars, uiVars, queueVars, ignore_file, clock, loopVars,
                 OPEN_REQUEST, hist>>

\* A variant of the iteration below in which a request to open the window,
\* once handled, ends the loop.
ItemMutOpenBreaks ==
  /\ InWalk /\ Top.ph = "items" /\ Top.todo # {}
  /\ IF CLOSE_REQUEST
     THEN /\ stack' = SetTop([Top EXCEPT !.todo = {}])
          /\ UNCHANGED <<worldVars, OPEN_REQUEST>>
     ELSE /\ OPEN_REQUEST' = FALSE
          /\ IF ~ Exists(sync_dir) \/ OPEN_REQUEST
             THEN /\ stack' = SetTop([Top EXCEPT !.todo = {}])
                  /\ UNCHANGED worldVars
             ELSE \E p \in Top.todo, ch \in Choices :
                    LET res == IF Top.w = "L"
                               THEN LocalItem(World(sync_dir), sync_dir, p, ch)
                               ELSE RemoteItem(World(sync_dir), sync_dir, p, ch)
                        rest == [Top EXCEPT !.todo = @ \ {p}]
                    IN  /\ Commit(res.W, sync_dir)
                        /\ stack' =
                             IF res.rec /\ res.W.panic = "none"
                             THEN Append(SetTop([rest EXCEPT !.cur = p, !.sav = res.sav]),
                                         Frame(Top.w, p))
                             ELSE SetTop(rest)
  /\ UNCHANGED <<dbVars, uiVars, queueVars, ignore_file, clock, loopVars, hist>>

\* lines 1617-1937 and 2013-2340: one iteration of the loop over the entries
Item ==
  /\ InWalk /\ Top.ph = "items" /\ Top.todo # {}
  /\ IF CLOSE_REQUEST
     THEN /\ stack' = SetTop([Top EXCEPT !.todo = {}])
          /\ UNCHANGED <<worldVars, OPEN_REQUEST>>
     ELSE /\ OPEN_REQUEST' = FALSE
          /\ IF ~ Exists(sync_dir)
             THEN /\ stack' = SetTop([Top EXCEPT !.todo = {}])
                  /\ UNCHANGED worldVars
             ELSE \E p \in Top.todo, ch \in Choices :
                    LET res == IF Top.w = "L"
                               THEN LocalItem(World(sync_dir), sync_dir, p, ch)
                               ELSE RemoteItem(World(sync_dir), sync_dir, p, ch)
                        rest == [Top EXCEPT !.todo = @ \ {p}]
                    IN  /\ Commit(res.W, sync_dir)
                        /\ stack' =
                             IF res.rec /\ res.W.panic = "none"
                             THEN Append(SetTop([rest EXCEPT !.cur = p, !.sav = res.sav]),
                                         Frame(Top.w, p))
                             ELSE SetTop(rest)
  /\ UNCHANGED <<dbVars, uiVars, queueVars, ignore_file, clock, loopVars, hist>>

\* The end of a call: the caller's entry goes on after its recursive call
\* (lines 1749-1761, 1843, 1853, 1896-1936; 2116, 2143, 2254, 2265, 2308-2339);
\* the first call of sync_local_directory is followed by that of
\* sync_remote_directory (line 2354), which is followed by line 2366.
Return ==
  /\ InWalk /\ Top.ph = "items" /\ Top.todo = {}
  /\ IF Len(stack) > 1
     THEN /\ \E ch \in Choices :
               LET parent == stack[Len(stack) - 1]
                   W == IF parent.w = "L"
                        THEN LocalAfter(World(sync_dir), sync_dir, parent.cur,
                                        parent.sav, ch)
                        ELSE RemoteAfter(World(sync_dir), sync_dir, parent.cur,
                                         parent.sav, ch)
               IN  /\ Commit(W, sync_dir)
                   /\ stack' = [Pop EXCEPT ![Len(stack) - 1] =
                                  [parent EXCEPT !.cur = Root, !.sav = NoSav]]
          /\ UNCHANGED pc
     ELSE IF Top.w = "L"
     THEN /\ stack' = <<Frame("R", Root)>>
          /\ UNCHANGED <<pc, worldVars>>
     ELSE /\ stack' = << >>
          /\ pc' = "after"
          /\ UNCHANGED worldVars
  /\ UNCHANGED <<dbVars, uiVars, queueVars, ignore_file, clock, remotes_iter,
                 sync_dirs_iter, remote, sync_dir, OPEN_REQUEST, hist>>

----------------------------------------------------------------------------
(* process_deletion_requests, and the drain at the top of a remote *)

AllCells == {"directory_map", "remote_deletion_queue", "sync_dir_deletion_queue"}

ItemsWithout(id) == SelectSeq(items_tbl, LAMBDA it : it.sync_dir_id # id)

\* lines 1470-1473: process_deletion_requests() takes the three mutable
\* borrows, which it keeps until it returns
LevelDrainBegin ==
  /\ InWalk /\ Top.ph = "drain"
  /\ remote_deletion_queue # << >> \/ sync_dir_deletion_queue # << >>
  /\ borrowed' = AllCells
  /\ drain' = [NoDrain EXCEPT !.at = "level"]
  /\ UNCHANGED <<dbVars, uiVars, remote_deletion_queue, sync_dir_deletion_queue,
                 treeVars, loopVars, flagVars, hist, worldVars, stack>>

\* lines 1475-1503: one round of `while !sync_dir_queue.is_empty()`
DrainDir ==
  /\ Running /\ drain.at = "level" /\ drain.st = "none"
  /\ sync_dir_deletion_queue # << >>
  /\ LET queue_item == Head(sync_dir_deletion_queue)
         dir_pair   == [l |-> queue_item[2], r |-> queue_item[3]]
         rows == {x \in dirs_tbl : x.local_path = queue_item[2]
                                   /\ x.remote_path = queue_item[3]}
         row  == CHOOSE x \in rows : TRUE
     IN  /\ sync_dir_deletion_queue' = Tail(sync_dir_deletion_queue)
         /\ IF dir_pair \notin directory_map[queue_item[1]]
            THEN /\ panic' = "drain_dir_map"
                 /\ UNCHANGED <<directory_map, dirs_tbl, items_tbl>>
            ELSE /\ directory_map' = [directory_map EXCEPT ![queue_item[1]] = @ \ {dir_pair}]
                 /\ IF rows = {}
                    THEN /\ panic' = "drain_dir_db"
                         /\ UNCHANGED <<dirs_tbl, items_tbl>>
                    ELSE /\ items_tbl' = ItemsWithout(row.id)
                         /\ dirs_tbl' = dirs_tbl \ {row}
                         /\ UNCHANGED panic
  /\ drain' = [drain EXCEPT !.y = TRUE]
  /\ UNCHANGED <<remotes_tbl, configs, stack_ui, errVars, remote_deletion_queue,
                 borrowed, treeVars, synced_items, stack, loopVars, flagVars,
                 oplog, hist, env>>

\* lines 1177-1189 and 1506-1519: the queue's head is taken, its page leaves
\* the window, and the Remote and its SyncDirs are read from the database
DrainRemotePop ==
  /\ Running /\ drain.at # "none" /\ drain.st = "none"
  /\ drain.at = "level" => sync_dir_deletion_queue = << >>
  /\ remote_deletion_queue # << >>
  /\ LET remote_name == Head(remote_deletion_queue)
     IN  /\ remote_deletion_queue' = Tail(remote_deletion_queue)
         /\ IF remote_name \notin stack_ui
            THEN /\ panic' = "drain_stack_child"
                 /\ UNCHANGED <<stack_ui, drain>>
            ELSE /\ stack_ui' = stack_ui \ {remote_name}
                 /\ IF remote_name \notin remotes_tbl
                    THEN /\ panic' = "drain_remote_db"
                         /\ UNCHANGED drain
                    ELSE /\ drain' = [drain EXCEPT !.name = remote_name,
                                                   !.dirs = DirsOf(remote_name),
                                                   !.st = "items", !.y = TRUE]
                         /\ UNCHANGED panic
  /\ UNCHANGED <<dbVars, items_tbl, directory_map, errVars, sync_dir_deletion_queue,
                 borrowed, treeVars, synced_items, stack, loopVars, flagVars, oplog,
                 hist, env>>

\* lines 1195-1200 and 1525-1530: SyncItemsEntity::delete_many() of a SyncDir
DrainRemoteItems ==
  /\ Running /\ drain.st = "items" /\ drain.dirs # << >>
  /\ items_tbl' = ItemsWithout(Head(drain.dirs).id)
  /\ drain' = [drain EXCEPT !.st = "dir"]
  /\ UNCHANGED <<dbVars, uiVars, errVars, remote_deletion_queue,
                 sync_dir_deletion_queue, borrowed, treeVars, synced_items, stack,
                 loopVars, flagVars, panic, oplog, hist, env>>

\* lines 1201 and 1532: sync_dir.delete(&db)
DrainRemoteDir ==
  /\ Running /\ drain.st = "dir"
  /\ dirs_tbl' = dirs_tbl \ {Head(drain.dirs)}
  /\ drain' = [drain EXCEPT !.dirs = Tail(@), !.st = "items"]
  /\ UNCHANGED <<remotes_tbl, configs, items_tbl, uiVars, errVars,
                 remote_deletion_queue, sync_dir_deletion_queue, borrowed, treeVars,
                 synced_items, stack, loopVars, flagVars, panic, oplog, hist, env>>

\* lines 1204 and 1535: db_remote.delete(&db)
DrainRemoteRow ==
  /\ Running /\ drain.st = "items" /\ drain.dirs = << >>
  /\ remotes_tbl' = remotes_tbl \ {drain.name}
  /\ drain' = [drain EXCEPT !.st = "config"]
  /\ UNCHANGED <<dirs_tbl, configs, items_tbl, uiVars, errVars,
                 remote_deletion_queue, sync_dir_deletion_queue, borrowed, treeVars,
                 synced_items, stack, loopVars, flagVars, panic, oplog, hist, env>>

\* lines 1212 and 1540: rclone::sync::delete_config(&remote_name).unwrap()
DrainDeleteConfig ==
  /\ Running /\ drain.st = "config"
  /\ configs' = configs \ {drain.name}
  /\ drain' = [drain EXCEPT !.st = "none", !.name = ""]
  /\ UNCHANGED <<remotes_tbl, dirs_tbl, items_tbl, uiVars, errVars,
                 remote_deletion_queue, sync_dir_deletion_queue, borrowed, treeVars,
                 synced_items, stack, loopVars, flagVars, panic, oplog, hist, env>>

\* lines 1214 and 1542: the queues are empty and the borrows end. At the top
\* of a remote the SyncDirs of the remote are read next (lines 1220-1225).
DrainEnd ==
  /\ Running /\ drain.at # "none" /\ drain.st = "none"
  /\ remote_deletion_queue = << >>
  /\ drain.at = "level" => sync_dir_deletion_queue = << >>
  /\ borrowed' = {}
  /\ drain' = NoDrain
  /\ IF drain.at = "top"
     THEN /\ sync_dirs_iter' = DirsOf(remote)
          /\ pc' = "dirs"
          /\ UNCHANGED stack
     ELSE /\ stack' = SetTop([Top EXCEPT !.ph = "list"])
          /\ UNCHANGED <<pc, sync_dirs_iter>>
  /\ UNCHANGED <<dbVars, uiVars, remote_deletion_queue, sync_dir_deletion_queue,
                 treeVars, remotes_iter, remote, sync_dir, flagVars, hist, worldVars>>

----------------------------------------------------------------------------
(* The user and the other writers of the two trees *)

\* The content a writer leaves at time t (unlike that of every other time).
ContentAt(t) == 10 + t

\* The SyncItem sync_local_directory finds for the entry at p (0: none).
BaselineOf(items, sd, p) ==
  FindItem(items, LocalPathL(sd, p), RemotePathL(sd, LocalPathL(sd, p)))

NoteEdit(side, sd, p, kind) ==
  [hist EXCEPT !.gap = @ \cup {[side |-> side, sd |-> sd.id, p |-> p, kind |-> kind,
                                t |-> clock + 1,
                                based |-> BaselineOf(items_tbl, sd, p) # 0]}]

Between == Running /\ pc = "main" /\ hist.complete /\ env.edits > 0

editFrame == <<dbVars, items_tbl, uiVars, errVars, queueVars, ignore_file,
               synced_items, stack, loopVars, flagVars, panic, oplog>>

\* A local file is rewritten.
EditLocalTouch(sd, p) ==
  /\ Between /\ Exists(sd) /\ lfs[sd.id][p].k = "file"
  /\ lfs' = [lfs EXCEPT ![sd.id][p] = FileNode(clock + 1, ContentAt(clock + 1))]
  /\ clock' = clock + 2
  /\ env' = [env EXCEPT !.edits = @ - 1]
  /\ hist' = NoteEdit("local", sd, p, "touch")
  /\ UNCHANGED <<rfs, editFrame>>

\* A remote file is rewritten.
EditRemoteTouch(sd, p) ==
  /\ Between /\ Exists(sd) /\ rfs[sd.id][p].k = "file"
  /\ rfs' = [rfs EXCEPT ![sd.id][p] = FileNode(clock + 1, ContentAt(clock + 1))]
  /\ clock' = clock + 2
  /\ env' = [env EXCEPT !.edits = @ - 1]
  /\ hist' = NoteEdit("remote", sd, p, "touch")
  /\ UNCHANGED <<lfs, editFrame>>

\* A local entry is removed.
EditLocalDelete(sd, p) ==
  /\ Between /\ Exists(sd) /\ lfs[sd.id][p].k # "none"
  /\ lfs' = [lfs EXCEPT ![sd.id] = RemoveLocal(@, p, clock + 1)]
  /\ clock' = clock + 2
  /\ env' = [env EXCEPT !.edits = @ - 1]
  /\ hist' = NoteEdit("local", sd, p, "delete")
  /\ UNCHANGED <<rfs, editFrame>>

\* A remote entry is removed; the remote keeps or sets the modification time
\* of the directory it was in.
EditRemoteDelete(sd, p, bump) ==
  /\ Between /\ Exists(sd) /\ rfs[sd.id][p].k # "none"
  /\ rfs' = [rfs EXCEPT ![sd.id] =
               IF bump THEN Touched(PurgeRemote(@, p), p, clock + 1)
               ELSE PurgeRemote(@, p)]
  /\ clock' = clock + 2
  /\ env' = [env EXCEPT !.edits = @ - 1]
  /\ hist' = NoteEdit("remote", sd, p, "delete")
  /\ UNCHANGED <<lfs, editFrame>>

\* the dialog of the trash button of a SyncDir row (lines 520-551); the page of
\* a remote is insensitive once its removal is asked for (line 886)
EnqueueDir(sd) ==
  /\ Running /\ pc \notin {"exit", "login"} /\ env.enq > 0
  /\ drain.at = "none" \/ drain.y
  /\ PairOf(sd) \in directory_map[sd.remote]
  /\ sd.remote \in stack_ui
  /\ ~ \E i \in 1..Len(remote_deletion_queue) : remote_deletion_queue[i] = sd.remote
  /\ ~ \E i \in 1..Len(sync_dir_deletion_queue) :
         sync_dir_deletion_queue[i] = <<sd.remote, sd.local_path, sd.remote_path>>
  /\ env' = [env EXCEPT !.enq = @ - 1]
  /\ IF "sync_dir_deletion_queue" \in borrowed
     THEN /\ panic' = "BorrowMutError"
          /\ UNCHANGED sync_dir_deletion_queue
     ELSE /\ sync_dir_deletion_queue' =
               Append(sync_dir_deletion_queue,
                      <<sd.remote, sd.local_path, sd.remote_path>>)
          /\ UNCHANGED panic
  /\ UNCHANGED <<dbVars, items_tbl, uiVars, errVars, remote_deletion_queue, borrowed,
                 drain, treeVars, synced_items, stack, loopVars, flagVars, oplog,
                 hist>>

\* the dialog of the delete button of a remote's page (lines 885-903)
EnqueueRemote(remote_name) ==
  /\ Running /\ pc \notin {"exit", "login"} /\ env.enq > 0
  /\ drain.at = "none" \/ drain.y
  /\ remote_name \in stack_ui
  /\ ~ \E i \in 1..Len(remote_deletion_queue) :
         remote_deletion_queue[i] = remote_name
  /\ env' = [env EXCEPT !.enq = @ - 1]
  /\ IF "remote_deletion_queue" \in borrowed
     THEN /\ panic' = "BorrowMutError"
          /\ UNCHANGED remote_deletion_queue
     ELSE /\ remote_deletion_queue' = Append(remote_deletion_queue, remote_name)
          /\ UNCHANGED panic
  /\ UNCHANGED <<dbVars, items_tbl, uiVars, errVars, sync_dir_deletion_queue,
                 borrowed, drain, treeVars, synced_items, stack, loopVars, flagVars,
                 oplog, hist>>

\* zbus_app::close (line 159) and the Quit button (line 996): the stop signal
CloseRequest ==
  /\ Running /\ pc \notin {"exit", "login"} /\ env.close > 0
  /\ ~ CLOSE_REQUEST
  /\ CLOSE_REQUEST' = TRUE
  /\ env' = [env EXCEPT !.close = @ - 1]
  /\ UNCHANGED <<dbVars, items_tbl, uiVars, errVars, queueVars, treeVars,
                 synced_items, stack, loopVars, OPEN_REQUEST, panic, oplog, hist>>

\* The application is started again after it has quit (fn launch up to the
\* 'main loop, lines 210-1121): the window, the DirectoryMap and the queues are
\* built anew from the database, which the trees and the store outlive.
Restart ==
  /\ Running /\ pc = "exit" /\ hist.runs < MaxRuns
  /\ pc' = "main"
  /\ CLOSE_REQUEST' = FALSE /\ OPEN_REQUEST' = FALSE
  /\ directory_map' = [n \in DOMAIN directory_map |->
                         {PairOf(sd) : sd \in {x \in dirs_tbl : x.remote = n}}]
  /\ stack_ui' = remotes_tbl
  /\ error_items' = [i \in DOMAIN error_items |-> {}]
  /\ error_count' = [i \in DOMAIN error_count |-> 0]
  /\ remote_deletion_queue' = << >> /\ sync_dir_deletion_queue' = << >>
  /\ borrowed' = {} /\ drain' = NoDrain
  /\ synced_items' = {} /\ stack' = << >>
  /\ remotes_iter' = << >> /\ sync_dirs_iter' = << >>
  /\ hist' = [hist EXCEPT !.runs = @ + 1, !.complete = FALSE, !.clean = FALSE,
                          !.prev_clean = FALSE, !.edits = {}, !.gap = {}]
  /\ env' = [env EXCEPT !.tray = TrayStarted]
  /\ UNCHANGED <<dbVars, items_tbl, treeVars, remote, sync_dir, panic, oplog>>

----------------------------------------------------------------------------
(* Initial states and specifications *)

DirIds == {"A", "B", "C"}
RemoteNames == {"r1", "r2"}

Row(id, rem, lp, rp) ==
  [id |-> id, remote |-> rem, local_path |-> lp, remote_path |-> rp]
RowA(rp) == Row("A", "r1", <<"LA">>, rp)
RowB == Row("B", "r1", <<"LB">>, <<"b">>)
RowC == Row("C", "r2", <<"LC">>, << >>)

\* The trees a SyncDir can start from.
InitTrees(paths) ==
  {t \in [RelPaths -> {NoNode} \cup {FileNode(ts, 1) : ts \in 1..MaxInitTs}
                               \cup {DirNode(ts) : ts \in 1..MaxInitTs}] :
     /\ WellFormed(t)
     /\ \A q \in RelPaths : q \notin paths => t[q] = NoNode
     /\ t[P_d].k # "file" /\ t[P_dx].k # "dir" /\ t[P_f].k # "dir"}

NoHist == [pass |-> 0, complete |-> FALSE, clean |-> FALSE, prev_clean |-> FALSE,
           edits |-> {}, gap |-> {}, runs |-> 1, prev_failed |-> {},
           decided |-> {}, add |-> [n |-> 0], opened |-> FALSE, sent |-> "none",
           asked |-> 0,
           start |-> [l |-> [i \in DirIds |-> EmptyTree],
                      r |-> [i \in DirIds |-> EmptyTree], items |-> << >>,
                      ec |-> [i \in DirIds |-> 0]]]

InitWorker ==
  /\ borrowed = {} /\ drain = NoDrain
  /\ remote_deletion_queue = << >> /\ sync_dir_deletion_queue = << >>
  /\ error_items = [i \in DirIds |-> {}]
  /\ error_count = [i \in DirIds |-> 0]
  /\ items_tbl = << >>
  /\ synced_items = {} /\ stack = << >>
  /\ pc = "main" /\ remotes_iter = << >> /\ sync_dirs_iter = << >>
  /\ remote = "r1" /\ sync_dir = RowA(<< >>)
  /\ CLOSE_REQUEST = FALSE /\ OPEN_REQUEST = FALSE
  /\ panic = "none" /\ oplog = {} /\ hist = NoHist
  /\ clock = MaxInitTs + 1

\* One remote with one SyncDir, whose remote root is the root of the remote
\* or the directory docs; any pair of trees; nothing synchronised yet.
Init ==
  /\ InitWorker
  /\ remotes_tbl = {"r1"} /\ configs = {"r1"} /\ stack_ui = {"r1"}
  /\ \E rp \in {<< >>, <<"docs">>} :
       /\ dirs_tbl = {RowA(rp)}
       /\ directory_map = [n \in RemoteNames |->
                             IF n = "r1" THEN {PairOf(RowA(rp))} ELSE {}]
  /\ \E l \in InitTrees({P_d, P_dx}), r \in InitTrees({P_d, P_dx}) :
       /\ lfs = [i \in DirIds |-> IF i = "A" THEN l ELSE EmptyTree]
       /\ rfs = [i \in DirIds |-> IF i = "A" THEN r ELSE EmptyTree]
  /\ ignore_file = [i \in DirIds |-> {}]
  /\ env = [faults |-> 0, edits |-> MaxEdits, enq |-> 0, close |-> 0,
            tray |-> TrayStarted]

Worker ==
  \/ MainTop \/ PassEnd \/ RemoteNext \/ DirsNext \/ AfterWalk
  \/ LevelDrainEmpty \/ LevelList \/ Item \/ Return

Edit ==
  \E sd \in dirs_tbl, p \in RelPaths :
    \/ EditLocalTouch(sd, p)
    \/ EditRemoteTouch(sd, p)
    \/ EditLocalDelete(sd, p)
    \/ \E bump \in BOOLEAN : EditRemoteDelete(sd, p, bump)

Next == Worker \/ Edit

Spec == Init /\ [][Next]_vars

----------------------------------------------------------------------------
(* Properties *)

TransferOps == {"copy_to_remote", "copy_to_local", "mkdir", "purge", "delete",
                "remove_local", "create_dir"}
StoreOps == {"db_insert", "db_update", "db_delete"}

\* The 'main loop is between two passes, the last of which ran to its end
\* without an error, and nothing was changed since.
PassDone ==
  /\ pc = "main" /\ panic = "none"
  /\ hist.complete /\ hist.clean /\ hist.gap = {}

\* Both sides hold the content written at time t and the baseline of the
\* entry at p carries the modification times of both sides.
Converged(sd, p, t) ==
  /\ lfs[sd.id][p].k = "file" /\ lfs[sd.id][p].c = ContentAt(t)
  /\ rfs[sd.id][p].k = "file" /\ rfs[sd.id][p].c = ContentAt(t)
  /\ BaselineOf(items_tbl, sd, p) # 0
  /\ LET b == items_tbl[BaselineOf(items_tbl, sd, p)]
     IN  /\ b.last_local_timestamp = lfs[sd.id][p].ts
         /\ b.last_remote_timestamp = rfs[sd.id][p].ts

\* C1 (convergence): after a pass without error that follows one rewrite of a
\* file that has a baseline, on one side only, both sides hold the rewritten
\* content and the baseline equals the modification times of both sides.
C1_Convergence ==
  (PassDone /\ hist.prev_clean) =>
    \A e \in hist.edits, sd \in dirs_tbl :
      (hist.edits = {e} /\ e.kind = "touch" /\ e.based /\ e.sd = sd.id)
        => Converged(sd, e.p, e.t)

\* C2 (idempotence): a pass that follows a pass without error, with no change
\* on either side in between, makes no transfer and no change to the store.
C2_Idempotence ==
  (PassDone /\ hist.prev_clean /\ hist.edits = {} /\ hist.pass >= 2)
    => oplog = {}

\* The pass ran to its end (with or without errors).
PassOver == pc = "main" /\ panic = "none" /\ hist.complete

\* When the pass began, the entry at p of sd had a baseline that both its
\* local and its remote modification time exceeded.
InConflict(sd, p) ==
  LET i == BaselineOf(hist.start.items, sd, p)
      l == hist.start.l[sd.id][p]
      r == hist.start.r[sd.id][p]
  IN  /\ hist.start.ec[sd.id] = 0
      /\ i # 0 /\ l.k # "none" /\ r.k # "none"
      /\ l.ts > hist.start.items[i].last_local_timestamp
      /\ r.ts > hist.start.items[i].last_remote_timestamp

\* C3 (conflict detection): for an entry in conflict the pass makes no
\* transfer and leaves the baseline as it was; it raises one BothMoreCurrent
\* error for it when a side is not a directory, none when both are.
C3_ConflictDetection ==
  PassOver =>
    \A sd \in dirs_tbl, p \in RelPaths :
      InConflict(sd, p) =>
        LET b == hist.start.items[BaselineOf(hist.start.items, sd, p)]
            bothDirs == hist.start.l[sd.id][p].k = "dir"
                        /\ hist.start.r[sd.id][p].k = "dir"
            raised == {e \in oplog : e.op = "BothMoreCurrent" /\ e.p = p}
        IN  /\ ~ \E e \in oplog : e.p = p /\ e.op \in TransferOps
            /\ \E i \in 1..Len(items_tbl) : items_tbl[i] = b
            /\ Cardinality(raised) = IF bothDirs THEN 0 ELSE 1

\* This step is the iteration of the loop of the walk on the entry at p.
ItemStepOn(w, p) ==
  /\ InWalk /\ Top.w = w /\ Top.ph = "items" /\ p \in Top.todo
  /\ ~ CLOSE_REQUEST /\ Exists(sync_dir)
  /\ Len(stack') >= Len(stack)
  /\ p \notin stack'[Len(stack)].todo

\* The local entry at p has a baseline with its local modification time, and
\* the remote has nothing at p.
RemoteGone(p) ==
  LET i == BaselineOf(items_tbl, sync_dir, p)
  IN  /\ i # 0
      /\ lfs[sync_dir.id][p].ts = items_tbl[i].last_local_timestamp
      /\ rfs[sync_dir.id][p].k = "none"
      /\ ~ IgnoredBy(ignore_file[sync_dir.id],
                     StrippedRemotePath(sync_dir,
                                        RemotePathL(sync_dir, LocalPathL(sync_dir, p))))

\* C4 (a deletion on the remote is propagated): the iteration of the local
\* walk on an entry whose local time is the baseline's and that the remote no
\* longer has removes the local entry and the baseline, and does nothing
\* else: no error, no transfer.
C4_RemoteDeletionPropagated ==
  [][\A p \in RelPaths :
       (ItemStepOn("L", p) /\ RemoteGone(p)) =>
         LET b == items_tbl[BaselineOf(items_tbl, sync_dir, p)]
         IN  /\ lfs'[sync_dir.id][p].k = "none"
             /\ ~ \E i \in 1..Len(items_tbl') : items_tbl'[i].id = b.id
             /\ oplog' \ oplog = {[op |-> "remove_local", p |-> p, w |-> "L"],
                                  [op |-> "db_delete", p |-> p, w |-> "L"]}
             /\ rfs' = rfs /\ error_count' = error_count /\ panic' = "none"]_vars

\* A local entry was removed, with its baseline, by the local walk.
C4_Witness ==
  \E p \in RelPaths :
    /\ [op |-> "remove_local", p |-> p, w |-> "L"] \in oplog
    /\ [op |-> "db_delete", p |-> p, w |-> "L"] \in oplog
    /\ \E e \in hist.edits : e.side = "remote" /\ e.kind = "delete" /\ e.p = p

\* The SyncItem sync_remote_directory finds for the entry at p (0: none).
BaselineOfR(items, sd, p) ==
  FindItem(items, LocalPathR(sd, ItemPath(sd, p)), ItemPath(sd, p))

\* When the pass began, the entry at p of sd had a baseline with the remote's
\* modification time, and nothing was at its local path.
LocalGone(sd, p) ==
  LET i == BaselineOfR(hist.start.items, sd, p)
  IN  /\ hist.start.ec[sd.id] = 0
      /\ i # 0
      /\ hist.start.l[sd.id][p].k = "none"
      /\ hist.start.r[sd.id][p].k # "none"
      /\ hist.start.r[sd.id][p].ts = hist.start.items[i].last_remote_timestamp

\* C5 (a local deletion is propagated): when the pass is over, an entry that
\* had a baseline with the remote's time and no local counterpart is purged
\* from the remote and its baseline is no longer in the store.
C5_LocalDeletionPropagated ==
  PassOver =>
    \A sd \in dirs_tbl, p \in RelPaths :
      LocalGone(sd, p) =>
        LET b == hist.start.items[BaselineOfR(hist.start.items, sd, p)]
        IN  /\ rfs[sd.id][p].k = "none"
            /\ ~ \E i \in 1..Len(items_tbl) : items_tbl[i].id = b.id

----------------------------------------------------------------------------
(* Ignore rules *)

\* The contents of .sync-exclude.lst the SyncDir starts with.
PatternSets == {{<<"f">>}, {<<"d">>}, {<<"d", SEP, "x">>}, {<<"*", "x">>}}

\* One SyncDir with an ignore file; any pair of trees; nothing synchronised.
InitIgnore ==
  /\ InitWorker
  /\ remotes_tbl = {"r1"} /\ configs = {"r1"} /\ stack_ui = {"r1"}
  /\ \E rp \in {<< >>, <<"docs">>} :
       /\ dirs_tbl = {RowA(rp)}
       /\ directory_map = [n \in RemoteNames |->
                             IF n = "r1" THEN {PairOf(RowA(rp))} ELSE {}]
  /\ \E l \in InitTrees(RelPaths), r \in InitTrees(RelPaths) :
       /\ \A q \in RelPaths : l[q].ts <= 1 /\ r[q].ts <= 1
       /\ lfs = [i \in DirIds |-> IF i = "A" THEN l ELSE EmptyTree]
       /\ rfs = [i \in DirIds |-> IF i = "A" THEN r ELSE EmptyTree]
  /\ \E globs \in PatternSets :
       ignore_file = [i \in DirIds |-> IF i = "A" THEN globs ELSE {}]
  /\ env = [faults |-> 0, edits |-> 0, enq |-> 0, close |-> 0,
            tray |-> TrayStarted]

SpecIgnore == InitIgnore /\ [][Worker]_vars

\* C6 (ignore rules): an entry whose path from the SyncDir's remote root
\* matches a pattern is not transferred, not deleted and has no SyncItem,
\* whichever walk meets it.
C6_IgnoreCorrect ==
  \A sd \in dirs_tbl, p \in RelPaths :
    IgnoredBy(ignore_file[sd.id], RelString(p)) =>
      /\ ~ \E e \in oplog : e.p = p /\ e.op \in TransferOps \cup StoreOps
      /\ BaselineOf(items_tbl, sd, p) = 0
      /\ BaselineOfR(items_tbl, sd, p) = 0

----------------------------------------------------------------------------
(* Removal requests *)

\* The remote of each SyncDir of the initial states.
OwnerOf(id) == IF id = "C" THEN "r2" ELSE "r1"

\* Remote r1 with the SyncDirs A and B, remote r2 with the SyncDir C; A has a
\* directory with a file to upload, B and C a file; nothing synchronised yet.
InitQueue ==
  /\ InitWorker
  /\ remotes_tbl = RemoteNames /\ configs = RemoteNames /\ stack_ui = RemoteNames
  /\ dirs_tbl = {RowA(<< >>), RowB, RowC}
  /\ directory_map = [n \in RemoteNames |->
                        {PairOf(sd) : sd \in {x \in dirs_tbl : x.remote = n}}]
  /\ lfs = [i \in DirIds |->
              IF i = "A"
              THEN [EmptyTree EXCEPT ![P_d] = DirNode(1), ![P_dx] = FileNode(1, 1)]
              ELSE [EmptyTree EXCEPT ![P_f] = FileNode(1, 1)]]
  /\ rfs = [i \in DirIds |-> EmptyTree]
  /\ ignore_file = [i \in DirIds |-> {}]
  /\ env = [faults |-> 0, edits |-> 0, enq |-> MaxEnq, close |-> 0,
            tray |-> TrayStarted]

Drains ==
  \/ LevelDrainBegin \/ DrainDir \/ DrainRemotePop \/ DrainRemoteItems
  \/ DrainRemoteDir \/ DrainRemoteRow \/ DrainDeleteConfig \/ DrainEnd

Requests ==
  \/ \E sd \in dirs_tbl : EnqueueDir(sd)
  \/ \E n \in RemoteNames : EnqueueRemote(n)

NextQueue == Worker \/ Drains \/ Requests

SpecQueue == InitQueue /\ [][NextQueue]_vars

\* C7 (a removal asked for during the walk of a sibling): the iteration over
\* the SyncDirs read at the top of the remote does not fail when it comes to
\* a SyncDir that a drain has removed in the meantime.
C7_SiblingRemovalSafe == panic # "dir_map_lookup"

\* C8 (no drain inside an entry): while process_deletion_requests runs, no
\* call of the walk is between the start of an entry and the end of its
\* transfer and baseline write.
C8_NoDrainMidItem ==
  drain.at = "level" => \A i \in 1..Len(stack) : stack[i].cur = Root

\* C9 (a request may be appended while a drain runs): the append succeeds.
C9_AppendDuringDrain == panic # "BorrowMutError"

\* C10 (order of the removal of a remote): a SyncDir of the remote is deleted
\* when its SyncItems are gone, the Remote record when its SyncDirs are gone,
\* the rclone config when the Remote record is gone; once delete_config has
\* run, the store holds no Remote, SyncDir or SyncItem of the remote. At both
\* places of the drain.
C10_RemovalOrder ==
  [][/\ \A sd \in dirs_tbl \ dirs_tbl' :
          drain.st = "dir" =>
            ~ \E i \in 1..Len(items_tbl) : items_tbl[i].sync_dir_id = sd.id
     /\ \A n \in remotes_tbl \ remotes_tbl' :
          ~ \E sd \in dirs_tbl : sd.remote = n
     /\ \A n \in configs \ configs' :
          /\ n \notin remotes_tbl'
          /\ ~ \E sd \in dirs_tbl' : sd.remote = n
          /\ ~ \E i \in 1..Len(items_tbl') :
                 OwnerOf(items_tbl'[i].sync_dir_id) = n]_vars

----------------------------------------------------------------------------
(* The stop signal *)

\* As Init, and the stop signal is sent at some moment.
InitStop ==
  /\ InitWorker
  /\ remotes_tbl = {"r1"} /\ configs = {"r1"} /\ stack_ui = {"r1"}
  /\ \E rp \in {<< >>, <<"docs">>} :
       /\ dirs_tbl = {RowA(rp)}
       /\ directory_map = [n \in RemoteNames |->
                             IF n = "r1" THEN {PairOf(RowA(rp))} ELSE {}]
  /\ \E l \in InitTrees({P_d, P_dx}), r \in InitTrees({P_d, P_dx}) :
       /\ lfs = [i \in DirIds |-> IF i = "A" THEN l ELSE EmptyTree]
       /\ rfs = [i \in DirIds |-> IF i = "A" THEN r ELSE EmptyTree]
  /\ ignore_file = [i \in DirIds |-> {}]
  /\ env = [faults |-> 0, edits |-> 0, enq |-> 0, close |-> MaxStops,
            tray |-> TrayStarted]

NextStop == Worker \/ CloseRequest \/ Restart

SpecStop == InitStop /\ [][NextStop]_vars

\* The transfers a step starts.
StartedTransfers == {e \in oplog' \ oplog : e.op \in TransferOps}

\* The step calls sync_local_directory for a SyncDir (line 2343).
WalkBegins == pc # "walk" /\ pc' = "walk"

\* C11 (the stop signal halts the pass): a step at whose end CLOSE_REQUEST is
\* set has started no transfer (the signal, when it comes during an iteration,
\* comes in its first call, before every transfer of the iteration), and once
\* CLOSE_REQUEST is set no step begins the walk of a SyncDir.
C11_StopHalts ==
  [][/\ CLOSE_REQUEST' => StartedTransfers = {}
     /\ CLOSE_REQUEST => ~ WalkBegins]_vars

\* The local entry at p has its like on the remote.
Reconciled(sd, p) ==
  /\ rfs[sd.id][p].k = lfs[sd.id][p].k
  /\ rfs[sd.id][p].c = lfs[sd.id][p].c

\* C12 (a stopped pass is made up for): when the first pass after the
\* application was stopped and started again has run to its end without an
\* error, every local entry has its like on the remote, as after a pass that
\* was not stopped.
C12_StopLeavesRetry ==
  (hist.runs = 2 /\ PassOver /\ hist.clean) =>
    \A sd \in dirs_tbl, p \in RelPaths :
      lfs[sd.id][p].k # "none" => Reconciled(sd, p)

----------------------------------------------------------------------------
(* Failing calls *)

\* As Init, and a call of the adapter or of the filesystem fails.
InitFault ==
  /\ InitWorker
  /\ remotes_tbl = {"r1"} /\ configs = {"r1"} /\ stack_ui = {"r1"}
  /\ \E rp \in {<< >>, <<"docs">>} :
       /\ dirs_tbl = {RowA(rp)}
       /\ directory_map = [n \in RemoteNames |->
                             IF n = "r1" THEN {PairOf(RowA(rp))} ELSE {}]
  /\ \E l \in InitTrees({P_d, P_dx}), r \in InitTrees({P_d, P_dx}) :
       /\ lfs = [i \in DirIds |-> IF i = "A" THEN l ELSE EmptyTree]
       /\ rfs = [i \in DirIds |-> IF i = "A" THEN r ELSE EmptyTree]
  /\ ignore_file = [i \in DirIds |-> {}]
  /\ env = [faults |-> MaxFaults, edits |-> 0, enq |-> 0, close |-> 0,
            tray |-> TrayStarted]

SpecFault == InitFault /\ [][Worker]_vars

\* A call fails in this step.
CallFails == env'.faults < env.faults

\* C13 (errors are reported, none aborts the pass): a step in which a call
\* fails adds a General error and the thread does not panic.
C13_ErrorsReported ==
  [][CallFails =>
       /\ panic' = "none"
       /\ \E e \in oplog' \ oplog : e.op = "General"]_vars

\* C14 (a failed item is tried again): when a pass that follows a pass in
\* which a call failed for an entry has run to its end, it has worked on that
\* entry again (a transfer, a store write or an error of this pass is logged
\* for it); nobody has dismissed the error in between.
C14_RetryNextPass ==
  (PassOver /\ hist.pass >= 2) =>
    \A p \in hist.prev_failed \ {Root} : \E e \in oplog : e.p = p

----------------------------------------------------------------------------
(* The decision table *)

\* The nodes an entry can be on a side: nothing, a file or a directory, with
\* any modification time; c is the content of a file.
NodesAt(c) ==
  {NoNode} \cup {FileNode(ts, c) : ts \in 1..MaxInitTs}
           \cup {DirNode(ts) : ts \in 1..MaxInitTs}

\* The SyncItem of the entry at p as a former pass of the local walk (w = "L")
\* or of the remote walk ("R") has written it.
BaselineRow(sd, p, w, lts, rts) ==
  [id |-> 1, sync_dir_id |-> sd.id,
   local_path |-> IF w = "L" THEN LocalPathL(sd, p)
                  ELSE LocalPathR(sd, ItemPath(sd, p)),
   remote_path |-> IF w = "L" THEN RemotePathL(sd, LocalPathL(sd, p))
                   ELSE ItemPath(sd, p),
   last_local_timestamp |-> lts, last_remote_timestamp |-> rts]

\* One SyncDir with the single entry f, which is anything on either side and
\* has no baseline or any baseline: the sides have been written, replaced or
\* restored from older copies since the baseline was recorded.
InitTable ==
  /\ borrowed = {} /\ drain = NoDrain
  /\ remote_deletion_queue = << >> /\ sync_dir_deletion_queue = << >>
  /\ error_items = [i \in DirIds |-> {}]
  /\ error_count = [i \in DirIds |-> 0]
  /\ synced_items = {} /\ stack = << >>
  /\ pc = "main" /\ remotes_iter = << >> /\ sync_dirs_iter = << >>
  /\ remote = "r1"
  /\ CLOSE_REQUEST = FALSE /\ OPEN_REQUEST = FALSE
  /\ panic = "none" /\ oplog = {} /\ hist = NoHist
  /\ clock = MaxInitTs + 1
  /\ remotes_tbl = {"r1"} /\ configs = {"r1"} /\ stack_ui = {"r1"}
  /\ \E rp \in {<< >>, <<"docs">>} :
       /\ dirs_tbl = {RowA(rp)}
       /\ sync_dir = RowA(rp)
       /\ directory_map = [n \in RemoteNames |->
                             IF n = "r1" THEN {PairOf(RowA(rp))} ELSE {}]
       /\ \/ items_tbl = << >>
          \/ \E w \in {"L", "R"}, lts \in 1..MaxInitTs, rts \in 1..MaxInitTs :
               items_tbl = <<BaselineRow(RowA(rp), P_f, w, lts, rts)>>
  /\ \E l \in NodesAt(1), r \in NodesAt(2) :
       /\ lfs = [i \in DirIds |->
                   IF i = "A" THEN [EmptyTree EXCEPT ![P_f] = l] ELSE EmptyTree]
       /\ rfs = [i \in DirIds |->
                   IF i = "A" THEN [EmptyTree EXCEPT ![P_f] = r] ELSE EmptyTree]
  /\ ignore_file = [i \in DirIds |-> {}]
  /\ env = [faults |-> 0, edits |-> 0, enq |-> 0, close |-> 0,
            tray |-> TrayStarted]

SpecTable == InitTable /\ [][Worker]_vars

\* C15 (the classification is total): unreachable!() is not reached.
C15_ClassificationTotal == panic # "unreachable"

\* The step inserts the first SyncItem of the entry at p (a first sync).
FirstInsert(p) ==
  /\ \E e \in oplog' \ oplog : e.op = "db_insert" /\ e.p = p
  /\ Len(items_tbl') = Len(items_tbl) + 1
  /\ LET row == items_tbl'[Len(items_tbl')]
     IN  FindItem(items_tbl, row.local_path, row.remote_path) = 0

\* C16 (the baseline of a first sync): the SyncItem inserted for an entry
\* that had none carries the modification times the two sides have when it is
\* inserted, after the transfer.
C16_FirstSyncBaseline ==
  [][\A p \in RelPaths :
       FirstInsert(p) =>
         LET row == items_tbl'[Len(items_tbl')]
         IN  /\ row.last_local_timestamp = lfs'[sync_dir.id][p].ts
             /\ row.last_remote_timestamp = rfs'[sync_dir.id][p].ts]_vars

\* The index of the SyncItem the walk w finds for the entry at p (0: none).
FoundBy(w, items, p) ==
  IF w = "L" THEN BaselineOf(items, sync_dir, p) ELSE BaselineOfR(items, sync_dir, p)

\* The iteration of walk w on the entry at p classifies it against a baseline.
Classifies(w, p) ==
  /\ ItemStepOn(w, p)
  /\ FoundBy(w, items_tbl, p) # 0
  /\ w = "R" => <<LocalPathR(sync_dir, ItemPath(sync_dir, p)), ItemPath(sync_dir, p)>>
                  \notin synced_items

\* The step has logged the operation op of walk w on p.
Did(w, p, op) == [op |-> op, p |-> p, w |-> w] \in oplog' \ oplog

\* The step has begun the recursive call of a push or pull of the directory p.
Descends(p, kind) ==
  /\ Len(stack') = Len(stack) + 1
  /\ stack'[Len(stack)].cur = p /\ stack'[Len(stack)].sav.kind = kind

\* After the step the SyncItem of p carries the times lts and rts.
BaselineIs(w, p, lts, rts) ==
  /\ FoundBy(w, items_tbl', p) # 0
  /\ items_tbl'[FoundBy(w, items_tbl', p)].last_local_timestamp = lts
  /\ items_tbl'[FoundBy(w, items_tbl', p)].last_remote_timestamp = rts

\* C17 (the decision table, with a baseline): in both walks, local newer and
\* remote not newer gives a push, after which the baseline is (local time,
\* remote time after the push); local unchanged and remote newer gives a
\* pull, after which the baseline is (local time after the pull, remote time);
\* both unchanged and present gives no transfer and no store write. The push
\* or pull of a directory onto a directory is the recursive call.
C17_DecisionTable ==
  [][\A w \in {"L", "R"}, p \in RelPaths :
       Classifies(w, p) =>
         LET l == lfs[sync_dir.id][p]
             r == rfs[sync_dir.id][p]
             b == items_tbl[FoundBy(w, items_tbl, p)]
             l2 == lfs'[sync_dir.id][p]
             r2 == rfs'[sync_dir.id][p]
             newerL == l.k # "none" /\ l.ts > b.last_local_timestamp
             sameL  == l.k # "none" /\ l.ts = b.last_local_timestamp
             newerR == r.k # "none" /\ r.ts > b.last_remote_timestamp
             sameR  == r.k # "none" /\ r.ts = b.last_remote_timestamp
         IN  /\ (newerL /\ ~ newerR) =>
                  /\ panic' = "none" /\ error_count' = error_count
                  /\ IF l.k = "dir"
                     THEN Descends(p, "pushB")
                     ELSE /\ Did(w, p, "copy_to_remote")
                          /\ r2.k = "file" /\ r2.c = l.c /\ l2 = l
                          /\ BaselineIs(w, p, l2.ts, r2.ts)
             /\ (sameL /\ newerR) =>
                  /\ panic' = "none" /\ error_count' = error_count
                  /\ IF r.k = "dir" /\ (w = "R" \/ l.k = "dir")
                     THEN Descends(p, "pullB")
                     ELSE /\ Did(w, p, "copy_to_local")
                          /\ l2.k = r.k /\ l2.c = r.c /\ r2 = r
                          /\ BaselineIs(w, p, l2.ts, r.ts)
             /\ (sameL /\ sameR) =>
                  /\ oplog' = oplog /\ items_tbl' = items_tbl
                  /\ lfs' = lfs /\ rfs' = rfs /\ Len(stack') = Len(stack)]_vars

\* C18 (file against directory): an iteration that transfers an entry which
\* is a file on one side and a directory on the other leaves the same kind of
\* node on both sides and ends without error.
C18_TypeMismatchReplaced ==
  [][\A w \in {"L", "R"}, p \in RelPaths :
       LET l == lfs[sync_dir.id][p]
           r == rfs[sync_dir.id][p]
       IN  (/\ ItemStepOn(w, p)
            /\ l.k # "none" /\ r.k # "none" /\ l.k # r.k
            /\ \E e \in StartedTransfers : e.p = p)
             => /\ panic' = "none" /\ error_count' = error_count
                /\ lfs'[sync_dir.id][p].k = rfs'[sync_dir.id][p].k
                /\ lfs'[sync_dir.id][p].k # "none"]_vars

----------------------------------------------------------------------------
(* The remote walk *)

\* C19 (what only the remote has is pulled): after the first pass over an
\* empty store, run to its end without error, and before anything is changed,
\* every entry that was on the remote and not on the local side is on the
\* local side.
C19_RemoteOnlyPulled ==
  (PassDone /\ hist.pass = 1) =>
    \A sd \in dirs_tbl, p \in RelPaths :
      (hist.start.r[sd.id][p].k # "none" /\ hist.start.l[sd.id][p].k = "none")
        => lfs[sd.id][p].k # "none"

\* C20 (an entry is handled once in a pass): no entry has operations of the
\* pass (transfers, store writes, errors) from both the local and the remote
\* walk.
C20_ClassifiedOnce ==
  \A p \in RelPaths :
    ~ \E e1 \in oplog, e2 \in oplog :
        e1.p = p /\ e2.p = p /\ e1.w = "L" /\ e2.w = "R"

----------------------------------------------------------------------------
(* A kill between a copy and the write of the baseline *)

\* The process is killed inside an iteration of the loop over the entries,
\* when the copy of the entry has ended and before the store is written
\* (after line 1758 or 1797 and before 1844, 1853 or 1922; after 2142 or 2207
\* and before 2255, 2265 or 2326): the trees are those the copy leaves, the
\* store is the one the iteration found.
Kill ==
  /\ InWalk /\ Top.ph = "items" /\ ~ CLOSE_REQUEST /\ Exists(sync_dir)
  /\ hist.runs < MaxRuns
  /\ \E p \in Top.todo, ch \in Choices :
       LET W    == World(sync_dir)
           res  == IF Top.w = "L" THEN LocalItem(W, sync_dir, p, ch)
                   ELSE RemoteItem(W, sync_dir, p, ch)
           done == res.W.log \ W.log
       IN  /\ ~ res.rec /\ res.W.panic = "none"
           /\ \E e \in done : e.op \in {"copy_to_remote", "copy_to_local"}
           /\ \E e \in done : e.op \in {"db_insert", "db_update"}
           /\ lfs' = [lfs EXCEPT ![sync_dir.id] = res.W.l]
           /\ rfs' = [rfs EXCEPT ![sync_dir.id] = res.W.r]
           /\ oplog' = {e \in res.W.log : e \in W.log \/ e.op \notin StoreOps}
  /\ pc' = "exit" /\ stack' = << >>
  /\ UNCHANGED <<dbVars, items_tbl, uiVars, errVars, queueVars, ignore_file, clock,
                 synced_items, remotes_iter, sync_dirs_iter, remote, sync_dir,
                 flagVars, panic, hist, env>>

NextCrash == Worker \/ Kill \/ Restart

\* The single entry f, a file on one side or on both, of a SyncDir of the
\* root of the remote; it has no baseline, or the baseline a former pass has
\* written, which no side is older than.
InitCrash ==
  /\ InitTable
  /\ sync_dir.remote_path = << >>
  /\ lfs["A"][P_f].k # "dir" /\ rfs["A"][P_f].k # "dir"
  /\ \A i \in 1..Len(items_tbl) :
       /\ lfs["A"][P_f].k = "none" \/ items_tbl[i].last_local_timestamp <= lfs["A"][P_f].ts
       /\ rfs["A"][P_f].k = "none" \/ items_tbl[i].last_remote_timestamp <= rfs["A"][P_f].ts

\* The process is killed once and started again.
SpecCrash == InitCrash /\ [][NextCrash]_vars

\* The store holds a SyncItem of the entry at p, as one of the walks keys it,
\* that carries the modification times of both sides.
BaselineMatches(sd, p) ==
  \E i \in 1..Len(items_tbl) :
    /\ i \in {BaselineOf(items_tbl, sd, p), BaselineOfR(items_tbl, sd, p)}
    /\ items_tbl[i].last_local_timestamp = lfs[sd.id][p].ts
    /\ items_tbl[i].last_remote_timestamp = rfs[sd.id][p].ts

\* C21 (a kill between a copy and the write of the baseline is tolerated):
\* after the kill and the restart the thread does not panic, and when a pass
\* has run to its end no error is pending (no conflict was raised), the entry
\* is on both sides with the same content (nothing was deleted), and its
\* baseline carries the modification times of both sides.
C21_CrashTolerant ==
  hist.runs = 2 =>
    /\ panic = "none"
    /\ PassOver =>
         /\ error_count[sync_dir.id] = 0
         /\ lfs[sync_dir.id][P_f].k # "none"
         /\ Reconciled(sync_dir, P_f)
         /\ BaselineMatches(sync_dir, P_f)

----------------------------------------------------------------------------
(* The rows of the error list: a decision on a conflict, a dismissal *)

\* The entry an error of the SyncDir is about.
EntryOf(sd, error) == CHOOSE q \in RelPaths : ItemPath(sd, q) = error.b

\* the closure remove_ui_item (lines 1270-1295): the count in
\* error_status_text goes down by one, the error leaves error_items
remove_ui_item(W, sd, error) ==
  IF W.panic # "none" THEN W
  ELSE IF "directory_map" \in borrowed THEN Panic(W, "BorrowMutError")
  ELSE IF ~ InDirectoryMap(sd.remote, sd) THEN Panic(W, "remove_ui_item")
  ELSE IF error \notin W.ei THEN Panic(W, "error_items_remove")
  ELSE [W EXCEPT !.ei = @ \ {error}, !.ec = @ - 1]

\* the closure update_db_item of the conflict's row (lines 1342-1355): both
\* times are read anew, the SyncItem is found by its two paths
decision_update_db_item(W, error, p) ==
  LET idx == FindItem(W.items, error.a, error.b)
  IN  IF W.panic # "none" THEN W
      ELSE IF W.l[p].k = "none" THEN Panic(W, "metadata_unwrap")
      ELSE IF W.r[p].k = "none" THEN Panic(W, "stat_none_unwrap")
      ELSE IF idx = 0 THEN Panic(W, "update_db_item")
      ELSE Log([W EXCEPT !.items[idx].last_local_timestamp = W.l[p].ts,
                         !.items[idx].last_remote_timestamp = W.r[p].ts],
               "db_update", p, "U")

\* sync_local_to_remote and sync_remote_to_local (lines 1325-1340)
DecisionCopy(W, p, side, ch) ==
  IF side = "local"
  THEN Log([W EXCEPT !.r = CopyToRemote(W.l, @, p, ch.t, clock)], "copy_to_remote", p, "U")
  ELSE Log([W EXCEPT !.l = CopyToLocal(@, W.r, p, ch.t, clock)], "copy_to_local", p, "U")

\* lines 1322-1424: the row of a BothMoreCurrent error is clicked and, when
\* both sides are there, the user answers the dialog with resp. The side that
\* alone is there is taken without asking; when the remote cannot be read or
\* the copy fails, a message is shown and nothing else is done.
ApplyDecision(W, sd, error, resp, ch) ==
  LET p == EntryOf(sd, error)
      l == W.l[p]
      r == W.r[p]
      side == IF r.k = "none" THEN "local" ELSE IF l.k = "none" THEN "remote" ELSE resp
  IN  IF Fails(ch, "stat") THEN Met(W)
      ELSE IF l.k = "none" /\ r.k = "none" THEN remove_ui_item(W, sd, error)
      ELSE IF Fails(ch, "copy") THEN Log(Met(W), "copy_failed", p, "U")
      ELSE remove_ui_item(
             decision_update_db_item(DecisionCopy(W, p, side, ch), error, p),
             sd, error)

\* The callbacks of the window run when the worker is in a blocking call.
CallbacksRun ==
  /\ Running /\ pc \notin {"exit", "login"}
  /\ drain.at = "none" \/ drain.y

Decide(sd, error, resp) ==
  /\ CallbacksRun
  /\ PairOf(sd) \in directory_map[sd.remote]
  /\ error \in error_items[sd.id] /\ error.kind = "BothMoreCurrent"
  /\ \E ch \in Choices :
       LET W == ApplyDecision(World(sd), sd, error, resp, ch)
       IN  /\ ch.s = FALSE
           /\ Commit(W, sd)
           /\ hist' = IF error \in W.ei \/ W.panic # "none" THEN hist
                      ELSE [hist EXCEPT !.decided = @ \cup {EntryOf(sd, error)}]
  /\ UNCHANGED <<dbVars, uiVars, queueVars, ignore_file, clock, stack, loopVars,
                 OPEN_REQUEST>>

\* lines 1298-1321: the user dismisses a General error
Dismiss(sd, error) ==
  /\ CallbacksRun
  /\ PairOf(sd) \in directory_map[sd.remote]
  /\ error \in error_items[sd.id] /\ error.kind = "General"
  /\ Commit(remove_ui_item(World(sd), sd, error), sd)
  /\ UNCHANGED <<dbVars, uiVars, queueVars, ignore_file, clock, stack, loopVars,
                 OPEN_REQUEST, hist>>

ErrorRows ==
  \E sd \in dirs_tbl, error \in UNION {error_items[i] : i \in DirIds} :
    \/ \E resp \in {"local", "remote"} : Decide(sd, error, resp)
    \/ Dismiss(sd, error)

\* As InitTable, and up to k calls of the adapter or of the filesystem fail.
InitRows(k) ==
  /\ borrowed = {} /\ drain = NoDrain
  /\ remote_deletion_queue = << >> /\ sync_dir_deletion_queue = << >>
  /\ error_items = [i \in DirIds |-> {}]
  /\ error_count = [i \in DirIds |-> 0]
  /\ synced_items = {} /\ stack = << >>
  /\ pc = "main" /\ remotes_iter = << >> /\ sync_dirs_iter = << >>
  /\ remote = "r1"
  /\ CLOSE_REQUEST = FALSE /\ OPEN_REQUEST = FALSE
  /\ panic = "none" /\ oplog = {} /\ hist = NoHist
  /\ clock = MaxInitTs + 1
  /\ remotes_tbl = {"r1"} /\ configs = {"r1"} /\ stack_ui = {"r1"}
  /\ \E rp \in {<< >>, <<"docs">>} :
       /\ dirs_tbl = {RowA(rp)}
       /\ sync_dir = RowA(rp)
       /\ directory_map = [n \in RemoteNames |->
                             IF n = "r1" THEN {PairOf(RowA(rp))} ELSE {}]
       /\ \/ items_tbl = << >>
          \/ \E w \in {"L", "R"}, lts \in 1..MaxInitTs, rts \in 1..MaxInitTs :
               items_tbl = <<BaselineRow(RowA(rp), P_f, w, lts, rts)>>
  /\ \E l \in NodesAt(1), r \in NodesAt(2) :
       /\ lfs = [i \in DirIds |->
                   IF i = "A" THEN [EmptyTree EXCEPT ![P_f] = l] ELSE EmptyTree]
       /\ rfs = [i \in DirIds |->
                   IF i = "A" THEN [EmptyTree EXCEPT ![P_f] = r] ELSE EmptyTree]
  /\ ignore_file = [i \in DirIds |-> {}]
  /\ env = [faults |-> k, edits |-> 0, enq |-> 0, close |-> 0,
            tray |-> TrayStarted]

InitDecide == InitRows(MaxFaults)

NextDecide == Worker \/ ErrorRows

SpecDecide == InitDecide /\ [][NextDecide]_vars

\* Number of calls that fail when a call fails in both walks of a pass.
MaxRepeatedFaults == 2

InitRepeat == InitRows(MaxRepeatedFaults)

SpecRepeat == InitRepeat /\ [][NextDecide]_vars

\* The step makes the copy of a decision on the entry at p.
DecisionCopies(p) ==
  \E e \in oplog' \ oplog :
    e.w = "U" /\ e.p = p /\ e.op \in {"copy_to_remote", "copy_to_local"}

\* C22 (a decision on a conflict is applied): a step in which the copy of a
\* decision succeeds removes the BothMoreCurrent error of the entry from the
\* SyncDir's error set, takes one off the count, and leaves a SyncItem with
\* the modification times both sides have after the copy; a step in which the
\* copy fails changes neither the error set nor the store; and the loop over
\* the SyncDirs walks a SyncDir whose error set is empty.
C22_DecisionApplied ==
  [][/\ \A sd \in dirs_tbl, p \in RelPaths :
          /\ DecisionCopies(p) =>
               /\ panic' = "none"
               /\ error_count'[sd.id] = error_count[sd.id] - 1
               /\ \E error \in error_items[sd.id] :
                    /\ error.kind = "BothMoreCurrent" /\ EntryOf(sd, error) = p
                    /\ error_items'[sd.id] = error_items[sd.id] \ {error}
                    /\ LET i == FindItem(items_tbl', error.a, error.b)
                       IN  /\ i # 0
                           /\ items_tbl'[i].last_local_timestamp = lfs'[sd.id][p].ts
                           /\ items_tbl'[i].last_remote_timestamp = rfs'[sd.id][p].ts
          /\ [op |-> "copy_failed", p |-> p, w |-> "U"] \in oplog' \ oplog =>
               /\ error_items' = error_items /\ error_count' = error_count
               /\ items_tbl' = items_tbl /\ lfs' = lfs /\ rfs' = rfs
     /\ (/\ pc = "dirs" /\ sync_dirs_iter # << >>
         /\ sync_dirs_iter' = Tail(sync_dirs_iter)
         /\ error_items[Head(sync_dirs_iter).id] = {})
          => pc' = "walk" /\ stack' = <<Frame("L", Root)>>]_vars

----------------------------------------------------------------------------
(* The dialog that adds a folder *)

\* A variant of the query below that finds nothing.
PairPresentMutNever(local_text, remote_text) == FALSE

\* lines 851-853: SyncDirsEntity::find().filter(LocalPath).filter(RemotePath)
\* .one(&db) is Some
PairPresent(local_text, remote_text) ==
  \E x \in dirs_tbl : x.local_path = local_text /\ x.remote_path = remote_text

\* The pairs of paths the user types.
PairsToAdd == {PairOf(RowA(<< >>)), PairOf(RowB), PairOf(RowC)}

\* The row id the database gives the next SyncDir.
FreshIds == DirIds \ {x.id : x \in dirs_tbl}

\* lines 827-880: the Ok button of the folder picker of the page of
\* remote_name. remote_there: stat finds the remote path; local_kind: what is
\* at the local path; stat_fails: stat returns an error. The row is inserted,
\* then add_dir (lines 319-618) puts the pair in the DirectoryMap, for which
\* it borrows the map mutably.
AddFolder(remote_name, pair, remote_there, local_kind, stat_fails) ==
  /\ CallbacksRun /\ env.enq > 0
  /\ remote_name \in stack_ui
  /\ ~ \E i \in 1..Len(remote_deletion_queue) : remote_deletion_queue[i] = remote_name
  /\ stat_fails => env.faults > 0
  /\ env' = [env EXCEPT !.enq = @ - 1, !.faults = IF stat_fails THEN @ - 1 ELSE @]
  /\ LET valid == /\ ~ stat_fails /\ remote_there
                  /\ ~ PairPresent(pair.l, pair.r)
                  /\ local_kind = "dir"
     IN  /\ hist' = [hist EXCEPT !.add = [n |-> @.n + 1, remote |-> remote_name,
                                          pair |-> pair, valid |-> valid]]
         /\ IF ~ valid
            THEN UNCHANGED <<dirs_tbl, directory_map, error_items, error_count, panic>>
            ELSE /\ FreshIds # {}
                 /\ LET id == CHOOSE i \in FreshIds : TRUE
                    IN  /\ dirs_tbl' = dirs_tbl \cup {Row(id, remote_name, pair.l, pair.r)}
                        /\ IF "directory_map" \in borrowed
                           THEN /\ panic' = "BorrowMutError"
                                /\ UNCHANGED <<directory_map, error_items, error_count>>
                           ELSE /\ directory_map' =
                                     [directory_map EXCEPT ![remote_name] = @ \cup {pair}]
                                /\ error_items' = [error_items EXCEPT ![id] = {}]
                                /\ error_count' = [error_count EXCEPT ![id] = 0]
                                /\ UNCHANGED panic
  /\ UNCHANGED <<remotes_tbl, configs, items_tbl, stack_ui, queueVars, treeVars,
                 synced_items, stack, loopVars, flagVars, oplog>>

Adds ==
  \E remote_name \in RemoteNames, pair \in PairsToAdd, remote_there \in BOOLEAN,
     local_kind \in {"dir", "file", "none"}, stat_fails \in BOOLEAN :
    AddFolder(remote_name, pair, remote_there, local_kind, stat_fails)

NextAdd == Worker \/ Drains \/ Requests \/ Adds

\* As InitQueue: folders are removed and added while the passes run.
SpecAdd == InitQueue /\ [][NextAdd]_vars

\* C23 (the pair of paths of a SyncDir is unique for its remote): the store
\* never holds two SyncDirs of one remote with the same local and remote
\* path, and a request to add a folder that does not pass the validation
\* (the remote path is absent or cannot be read, the pair is in the store,
\* the local path is missing or is no directory) changes neither the SyncDirs
\* of the store nor the DirectoryMap.
C23_PairUnique ==
  [][/\ \A x \in dirs_tbl', y \in dirs_tbl' :
          (x.remote = y.remote /\ PairOf(x) = PairOf(y)) => x = y
     /\ (hist'.add.n # hist.add.n /\ ~ hist'.add.valid)
          => dirs_tbl' = dirs_tbl /\ directory_map' = directory_map]_vars

\* A folder was removed, the removal was processed, and its pair was added
\* again.
C23_Witness ==
  /\ hist.add.n > 0 /\ hist.add.valid
  /\ env.enq = 0 /\ panic = "none"
  /\ \E x \in dirs_tbl : PairOf(x) = hist.add.pair /\ x.remote = hist.add.remote

----------------------------------------------------------------------------
(* The request to bring the window to the foreground *)

\* zbus_app::open (lines 162-164)
OpenRequest ==
  /\ Running /\ pc \notin {"exit", "login"}
  /\ ~ OPEN_REQUEST
  /\ OPEN_REQUEST' = TRUE
  /\ hist' = [hist EXCEPT !.opened = TRUE, !.asked = hist.pass]
  /\ UNCHANGED <<dbVars, items_tbl, uiVars, errVars, queueVars, treeVars,
                 synced_items, stack, loopVars, CLOSE_REQUEST, panic, oplog, env>>

\* As InitQueue without the SyncDir B, and a call of the adapter or of the
\* filesystem fails.
InitOpen ==
  /\ InitWorker
  /\ remotes_tbl = RemoteNames /\ configs = RemoteNames /\ stack_ui = RemoteNames
  /\ dirs_tbl = {RowA(<< >>), RowC}
  /\ directory_map = [n \in RemoteNames |->
                        {PairOf(sd) : sd \in {x \in dirs_tbl : x.remote = n}}]
  /\ lfs = [i \in DirIds |->
              IF i = "A"
              THEN [EmptyTree EXCEPT ![P_d] = DirNode(1), ![P_dx] = FileNode(1, 1)]
              ELSE [EmptyTree EXCEPT ![P_f] = FileNode(1, 1)]]
  /\ rfs = [i \in DirIds |-> EmptyTree]
  /\ ignore_file = [i \in DirIds |-> {}]
  /\ env = [faults |-> MaxFaults, edits |-> 0, enq |-> 1, close |-> 0,
            tray |-> TrayStarted]

NextOpen == Worker \/ Drains \/ Requests \/ OpenRequest

SpecOpen == InitOpen /\ [][NextOpen]_vars

\* What the processing of the entry at p by walk w makes of the sync state,
\* for one of the outcomes ch of its calls; OPEN_REQUEST is no part of it.
ItemOutcome(w, p, ch) ==
  LET W == IF w = "L" THEN LocalItem(World(sync_dir), sync_dir, p, ch).W
           ELSE RemoteItem(World(sync_dir), sync_dir, p, ch).W
  IN  /\ lfs' = [lfs EXCEPT ![sync_dir.id] = W.l]
      /\ rfs' = [rfs EXCEPT ![sync_dir.id] = W.r]
      /\ items_tbl' = W.items
      /\ error_items' = [error_items EXCEPT ![sync_dir.id] = W.ei]
      /\ error_count' = [error_count EXCEPT ![sync_dir.id] = W.ec]
      /\ synced_items' = W.synced
      /\ oplog' = W.log
      /\ panic' = W.panic

\* C24 (a request to open the window touches nothing else): the request sets
\* the flag and nothing else; the flag is cleared by an iteration of a walk's
\* loop only; and an iteration that finds the flag set does to the store, the
\* trees, the error sets, the visited set and the transfers of the pass what
\* the processing of its entry does without the flag, and leaves the SyncDirs,
\* the DirectoryMap and the deletion queues alone.
C24_OpenRequestFrame ==
  [][/\ (~ OPEN_REQUEST /\ OPEN_REQUEST') =>
          UNCHANGED <<dbVars, items_tbl, uiVars, errVars, queueVars, treeVars,
                      synced_items, stack, loopVars, CLOSE_REQUEST, panic, oplog>>
     /\ (OPEN_REQUEST /\ ~ OPEN_REQUEST') =>
          /\ InWalk /\ Top.ph = "items" /\ Top.todo # {} /\ ~ CLOSE_REQUEST
          /\ UNCHANGED <<dbVars, uiVars, queueVars, ignore_file, clock, loopVars>>
          /\ IF Exists(sync_dir)
             THEN \E p \in Top.todo, ch \in Choices :
                    ItemStepOn(Top.w, p) /\ ItemOutcome(Top.w, p, ch)
             ELSE UNCHANGED <<items_tbl, errVars, treeVars, synced_items, panic,
                              oplog>>]_vars

\* An iteration has cleared the flag and has made a transfer.
C24_Witness ==
  /\ hist.opened /\ ~ OPEN_REQUEST /\ pc = "walk"
  /\ \E e \in oplog : e.op \in TransferOps

----------------------------------------------------------------------------
(* Borrows of the shared cells *)

\* C25 (no borrow across a call of the adapter): when delete_config is about
\* to run, no mutable borrow of the DirectoryMap or of a deletion queue is
\* held.
C25_NoBorrowAcrossAdapter == drain.st = "config" => borrowed = {}

----------------------------------------------------------------------------
(* The tray *)

\* Before the 'main loop (line 1121): pc = "await_tray" while the tray has not
\* answered the status message, "tray_ready" when it is reachable. Inside the
\* loop send_dbus_msg and send_dbus_fn (lines 1089-1104) log a failure and go
\* on, so the passes do not depend on the tray.

\* The tray process has come up and answers on D-Bus.
TrayStarts ==
  /\ Running /\ pc = "await_tray"
  /\ pc' = "tray_ready"
  /\ UNCHANGED <<dbVars, items_tbl, uiVars, errVars, queueVars, treeVars,
                 synced_items, stack, remotes_iter, sync_dirs_iter, remote,
                 sync_dir, flagVars, panic, oplog, hist, env>>

\* line 1121: while send_dbus_msg_checked(..).is_err() {} -- the loop ends
\* when a send succeeds; a send that fails leaves the state as it is
AwaitTray ==
  /\ Running /\ pc \in {"await_tray", "tray_ready"}
  /\ pc' = IF pc = "tray_ready" THEN "main" ELSE pc
  /\ UNCHANGED <<dbVars, items_tbl, uiVars, errVars, queueVars, treeVars,
                 synced_items, stack, remotes_iter, sync_dirs_iter, remote,
                 sync_dir, flagVars, panic, oplog, hist, env>>

\* As InitTable, at the start of the application: the tray has been spawned
\* and has not answered yet.
InitTray ==
  /\ borrowed = {} /\ drain = NoDrain
  /\ remote_deletion_queue = << >> /\ sync_dir_deletion_queue = << >>
  /\ error_items = [i \in DirIds |-> {}]
  /\ error_count = [i \in DirIds |-> 0]
  /\ synced_items = {} /\ stack = << >>
  /\ pc = "await_tray" /\ remotes_iter = << >> /\ sync_dirs_iter = << >>
  /\ remote = "r1"
  /\ CLOSE_REQUEST = FALSE /\ OPEN_REQUEST = FALSE
  /\ panic = "none" /\ oplog = {} /\ hist = NoHist
  /\ clock = MaxInitTs + 1
  /\ remotes_tbl = {"r1"} /\ configs = {"r1"} /\ stack_ui = {"r1"}
  /\ \E rp \in {<< >>, <<"docs">>} :
       /\ dirs_tbl = {RowA(rp)}
       /\ sync_dir = RowA(rp)
       /\ directory_map = [n \in RemoteNames |->
                             IF n = "r1" THEN {PairOf(RowA(rp))} ELSE {}]
       /\ \/ items_tbl = << >>
          \/ \E w \in {"L", "R"}, lts \in 1..MaxInitTs, rts \in 1..MaxInitTs :
               items_tbl = <<BaselineRow(RowA(rp), P_f, w, lts, rts)>>
  /\ \E l \in NodesAt(1), r \in NodesAt(2) :
       /\ lfs = [i \in DirIds |->
                   IF i = "A" THEN [EmptyTree EXCEPT ![P_f] = l] ELSE EmptyTree]
       /\ rfs = [i \in DirIds |->
                   IF i = "A" THEN [EmptyTree EXCEPT ![P_f] = r] ELSE EmptyTree]
  /\ ignore_file = [i \in DirIds |-> {}]
  /\ env = [faults |-> 0, edits |-> 0, enq |-> 0, close |-> 0,
            tray |-> TrayStarted]

NextTray == Worker \/ AwaitTray \/ TrayStarts

\* The thread of launch runs on; nothing is assumed about the tray.
SpecTray == InitTray /\ [][NextTray]_vars /\ WF_vars(Worker \/ AwaitTray)

\* C26 (the syncing does not depend on the tray): the first pass begins,
\* whether or not the tray ever answers.
C26_TrayFailureTolerated == <>(hist.pass >= 1)

----------------------------------------------------------------------------
(* What a walk knows of the other side when it destroys something *)

\* The baseline of entry p of the SyncDir walked, as walk w looks it up
\* (0: none).
BaselineAt(w, p) ==
  IF w = "L"
  THEN FindItem(items_tbl, LocalPathL(sync_dir, p),
                RemotePathL(sync_dir, LocalPathL(sync_dir, p)))
  ELSE FindItem(items_tbl, LocalPathR(sync_dir, ItemPath(sync_dir, p)),
                ItemPath(sync_dir, p))

----------------------------------------------------------------------------
(* The entries a walk reaches *)

\* Entry p is in the local tree of sd, below directories only.
LocalEntry(tree, p) ==
  /\ tree[p].k # "none"
  /\ Len(p) > 1 => tree[Parent(p)].k = "dir"

\* C28 (the walk reaches every depth): when the walks of a SyncDir are over,
\* in a pass that was not stopped and in which the user edited nothing, every
\* local entry that is not ignored, was there when the pass began and is still
\* there has been looked up in the store by sync_local_directory.
C28_EveryDepthClassified ==
  (/\ pc = "after" /\ panic = "none" /\ ~ CLOSE_REQUEST /\ Exists(sync_dir)
   /\ hist.gap = {})
    => \A p \in RelPaths :
         LET local_path  == LocalPathL(sync_dir, p)
             remote_path == RemotePathL(sync_dir, local_path)
         IN  (/\ LocalEntry(hist.start.l[sync_dir.id], p)
              /\ LocalEntry(lfs[sync_dir.id], p)
              /\ ~ IgnoredBy(ignore_file[sync_dir.id],
                             StrippedRemotePath(sync_dir, remote_path)))
               => <<local_path, remote_path>> \in synced_items

----------------------------------------------------------------------------
(* A SyncDir with an error that nobody has answered *)

\* C29 (an error holds back its own item only): every SyncDir the loop over
\* the SyncDirs of a remote comes to is walked, with or without errors in its
\* list, so that the items without an error are looked at in every pass.
C29_ErrorExcludesOnlyItsItem ==
  [][(/\ pc = "dirs" /\ sync_dirs_iter # << >>
      /\ sync_dirs_iter' = Tail(sync_dirs_iter)
      /\ panic' = "none")
       => /\ pc' = "walk"
          /\ stack' = <<Frame("L", Root)>>]_vars

----------------------------------------------------------------------------
(* One SyncItem for a pair of paths *)

\* C30 (one baseline for an item): no two rows of the table of SyncItems have
\* the same SyncDir, local path and remote path.
C30_OneSyncItemPerPair ==
  \A i, j \in 1..Len(items_tbl) :
    (/\ items_tbl[i].sync_dir_id = items_tbl[j].sync_dir_id
     /\ items_tbl[i].local_path = items_tbl[j].local_path
     /\ items_tbl[i].remote_path = items_tbl[j].remote_path) => i = j

----------------------------------------------------------------------------
(* SyncItems of a SyncDir that was removed *)

\* C31 (no SyncItem without its SyncDir): every row of the table of SyncItems
\* names a SyncDir that is in the table of SyncDirs, and no walk fails on a
\* record that a drain has deleted.
C31_NoOrphanSyncItems ==
  /\ \A i \in 1..Len(items_tbl) :
       \E sd \in dirs_tbl : sd.id = items_tbl[i].sync_dir_id
  /\ panic \notin {"update_db_item", "delete_db_entry"}

----------------------------------------------------------------------------
(* The baseline of an item whose operation failed *)

\* The texts of the errors of a transfer, a purge or a removal.
OperationFailures ==
  {<<"copy">>, <<"purge">>, <<"delete">>, <<"mkdir">>, <<"create_dir">>,
   <<"remove">>, <<"remove_file">>}

\* C32 (a failure leaves the baseline alone): a step of a walk that reports
\* the failure of a transfer, a purge or a removal leaves the table of
\* SyncItems as it was.
C32_FailureKeepsBaseline ==
  [][(\E sd \in dirs_tbl :
        \E error \in error_items'[sd.id] \ error_items[sd.id] :
          error.kind = "General" /\ error.b \in OperationFailures)
       => items_tbl' = items_tbl]_vars

----------------------------------------------------------------------------
(* A copy of a file over a file *)

\* C33 (the destination outlives a failed copy): when the entry is a file on
\* both sides, a step of a walk removes or purges neither of them unless it
\* also puts the copy in place; after a failed copy both files are as before.
C33_FileOverFileKeepsDestination ==
  [][\A p \in RelPaths :
       (/\ \E e \in oplog' \ oplog : e.p = p /\ e.w \in {"L", "R"}
        /\ lfs[sync_dir.id][p].k = "file" /\ rfs[sync_dir.id][p].k = "file")
         => /\ lfs'[sync_dir.id][p].k = "file"
            /\ rfs'[sync_dir.id][p].k = "file"
            /\ (\E e \in oplog' \ oplog : e.op = "General" /\ e.p = p)
                 => /\ lfs'[sync_dir.id][p].c = lfs[sync_dir.id][p].c
                    /\ rfs'[sync_dir.id][p].c = rfs[sync_dir.id][p].c]_vars

----------------------------------------------------------------------------
(* The string the ignore patterns are tested on *)

\* C34 (one string for both walks): for every entry of every SyncDir, the
\* string sync_local_directory tests the patterns on and the string
\* sync_remote_directory tests them on are both the entry's path from the
\* SyncDir's remote root.
C34_SameIgnoreString ==
  \A sd \in dirs_tbl, p \in RelPaths :
    /\ StrippedRemotePath(sd, RemotePathL(sd, LocalPathL(sd, p))) = RelString(p)
    /\ ItemPath(sd, p) = RelString(p)

----------------------------------------------------------------------------
(* The removal of a SyncDir and of its remote, both pending *)

\* The failures of a drain: a record or a widget it unwraps is not there.
DrainFailures ==
  {"drain_dir_db", "drain_dir_map", "drain_remote_db", "drain_stack_child"}

\* C35 (a drain copes with what the other drain did): with the removal of a
\* SyncDir and the removal of its remote both in the queues, no drain fails,
\* whichever of the two places of the drain comes first.
C35_BothRemovalsProcessed == panic \notin DrainFailures

----------------------------------------------------------------------------
(* The signal at the end of a pass *)

\* C36 (done means no errors): the end of a pass sends SetDoneIcon exactly
\* when no SyncDir has an error in its list.
C36_DoneIffNoErrors ==
  hist.sent # "none" =>
    (hist.sent = "SetDoneIcon" <=> \A sd \in dirs_tbl : error_count[sd.id] = 0)

----------------------------------------------------------------------------
(* A request for the window while nothing is walked *)

\* C37 (the window is shown in every pass): a request made before a pass
\* began (hist.asked is the number of the pass in which it was made) has been
\* served when that pass is over.
C37_OpenRequestServed ==
  (PassOver /\ hist.asked < hist.pass) => ~ OPEN_REQUEST

----------------------------------------------------------------------------
(* Quitting: the application and the tray *)

\* celeste-tray main.rs:43-45: Quit in the tray's menu sets the tray's flag
TrayQuit ==
  /\ env.tray.pc = "loop" /\ ~ env.tray.CLOSE_REQUEST /\ env.close > 0
  /\ env' = [env EXCEPT !.tray.CLOSE_REQUEST = TRUE, !.close = @ - 1]
  /\ UNCHANGED <<dbVars, items_tbl, uiVars, errVars, queueVars, treeVars,
                 synced_items, stack, loopVars, flagVars, panic, oplog, hist>>

\* The tray's loop, leaving without the call of Close.
TrayLoopMutNoClose ==
  /\ env.tray.pc = "loop" /\ env.tray.CLOSE_REQUEST
  /\ env' = [env EXCEPT !.tray.pc = "done"]
  /\ UNCHANGED <<dbVars, items_tbl, uiVars, errVars, queueVars, treeVars,
                 synced_items, stack, loopVars, flagVars, panic, oplog, hist>>

\* celeste-tray main.rs:56-82: an iteration of the tray's loop that finds the
\* flag set calls Close of the application (launch.rs:158-160) and leaves the
\* loop; the call fails, with a warning only, when the application is gone.
TrayLoop ==
  /\ env.tray.pc = "loop" /\ env.tray.CLOSE_REQUEST
  /\ CLOSE_REQUEST' = (CLOSE_REQUEST \/ (Running /\ pc # "exit"))
  /\ env' = [env EXCEPT !.tray.pc = "done"]
  /\ UNCHANGED <<dbVars, items_tbl, uiVars, errVars, queueVars, treeVars,
                 synced_items, stack, loopVars, OPEN_REQUEST, panic, oplog, hist>>

\* As InitStop, with one entry at most on either side.
InitQuit ==
  /\ InitWorker
  /\ remotes_tbl = {"r1"} /\ configs = {"r1"} /\ stack_ui = {"r1"}
  /\ \E rp \in {<< >>, <<"docs">>} :
       /\ dirs_tbl = {RowA(rp)}
       /\ directory_map = [n \in RemoteNames |->
                             IF n = "r1" THEN {PairOf(RowA(rp))} ELSE {}]
  /\ \E l \in InitTrees({P_d}), r \in InitTrees({P_d}) :
       /\ lfs = [i \in DirIds |-> IF i = "A" THEN l ELSE EmptyTree]
       /\ rfs = [i \in DirIds |-> IF i = "A" THEN r ELSE EmptyTree]
  /\ ignore_file = [i \in DirIds |-> {}]
  /\ env = [faults |-> 0, edits |-> 0, enq |-> 0, close |-> MaxStops,
            tray |-> TrayStarted]

NextQuit == Worker \/ CloseRequest \/ TrayQuit \/ TrayLoop

\* The thread of the 'main loop keeps running and so does the tray's loop,
\* which a click on Quit wakes.
SpecQuit ==
  InitQuit /\ [][NextQuit]_vars /\ WF_vars(Worker) /\ WF_vars(TrayLoop)

\* C38 (a close request ends both processes): neither process ever clears its
\* CLOSE_REQUEST, and once either is set the application leaves 'main and the
\* tray leaves its loop or is killed.
C38_CloseRequestTerminatesBoth ==
  /\ [][/\ CLOSE_REQUEST => CLOSE_REQUEST'
        /\ env.tray.CLOSE_REQUEST => env'.tray.CLOSE_REQUEST]_vars
  /\ (CLOSE_REQUEST \/ env.tray.CLOSE_REQUEST)
       ~> (pc = "exit" /\ env.tray.pc = "done")

\* Quit was chosen in the tray's menu while a pass was running; the tray has
\* left its loop by itself and the application has left 'main.
C38_Witness ==
  /\ pc = "exit" /\ hist.pass >= 1 /\ ~ hist.complete
  /\ env.tray = [pc |-> "done", CLOSE_REQUEST |-> TRUE]
  /\ CLOSE_REQUEST /\ env.close = MaxStops - 1

----------------------------------------------------------------------------
(* The first sync of an entry *)

----------------------------------------------------------------------------
(* Remote timestamps before the epoch *)

\* The earliest remote modification time of the initial states, in seconds
\* from the epoch.
MinRemoteTs == 0 - 1

\* As InitTable without a baseline, and the remote entry can be older than
\* the epoch.
InitEpoch ==
  /\ borrowed = {} /\ drain = NoDrain
  /\ remote_deletion_queue = << >> /\ sync_dir_deletion_queue = << >>
  /\ error_items = [i \in DirIds |-> {}]
  /\ error_count = [i \in DirIds |-> 0]
  /\ synced_items = {} /\ stack = << >>
  /\ pc = "main" /\ remotes_iter = << >> /\ sync_dirs_iter = << >>
  /\ remote = "r1"
  /\ CLOSE_REQUEST = FALSE /\ OPEN_REQUEST = FALSE
  /\ panic = "none" /\ oplog = {} /\ hist = NoHist
  /\ clock = MaxInitTs + 1
  /\ remotes_tbl = {"r1"} /\ configs = {"r1"} /\ stack_ui = {"r1"}
  /\ items_tbl = << >>
  /\ \E rp \in {<< >>, <<"docs">>} :
       /\ dirs_tbl = {RowA(rp)}
       /\ sync_dir = RowA(rp)
       /\ directory_map = [n \in RemoteNames |->
                             IF n = "r1" THEN {PairOf(RowA(rp))} ELSE {}]
  /\ \E l \in NodesAt(1),
        r \in {NoNode} \cup {FileNode(ts, 2) : ts \in MinRemoteTs..MaxInitTs}
                       \cup {DirNode(ts) : ts \in MinRemoteTs..MaxInitTs} :
       /\ lfs = [i \in DirIds |->
                   IF i = "A" THEN [EmptyTree EXCEPT ![P_f] = l] ELSE EmptyTree]
       /\ rfs = [i \in DirIds |->
                   IF i = "A" THEN [EmptyTree EXCEPT ![P_f] = r] ELSE EmptyTree]
  /\ ignore_file = [i \in DirIds |-> {}]
  /\ env = [faults |-> 0, edits |-> 0, enq |-> 0, close |-> 0,
            tray |-> TrayStarted]

SpecEpoch == InitEpoch /\ [][Worker]_vars

\* C40 (the comparison of the first sync is by value): when an entry without
\* a baseline is a file on both sides, a step of a walk copies to the remote
\* only if the local timestamp is the greater number and to the local side
\* only if it is not, whatever the sign of the remote timestamp.
C40_GreaterTimestampWins ==
  [][\A p \in RelPaths :
       LET new == {e \in oplog' \ oplog : e.p = p}
           l == lfs[sync_dir.id][p]
           r == rfs[sync_dir.id][p]
       IN  (/\ new # {} /\ l.k = "file" /\ r.k = "file"
            /\ BaselineAt("L", p) = 0 /\ BaselineAt("R", p) = 0)
             => /\ (\E e \in new : e.op = "copy_to_remote") => l.ts > r.ts
                /\ (\E e \in new : e.op = "copy_to_local") => l.ts <= r.ts]_vars

====
